---- MODULE Spec2Model ----
(***************************************************************************)
(* A model of the error composition and traversal engine of                *)
(* gregwebs/errors.                                                        *)
(*                                                                         *)
(* Error values are references into a heap of nodes: 0 is the literal nil  *)
(* error, a positive number is the index of a node.  A node is a record    *)
(* holding the concrete type of the value (typ), the fields of that type   *)
(* (msg, error, sub, stack, attrs, flag) and, for values of types defined  *)
(* outside the library, what reflect reports about them (kind, nilv, len). *)
(* A string is a sequence of tokens; the delimiter ": " is one token.      *)
(*                                                                         *)
(* The source tree holds two revisions of the construction functions:     *)
(* errstack.go (Wrap coalesces into an existing *withMessage, the nil      *)
(* test is isNil) and errors.go (Wrap nests withStack{withMessage}, the    *)
(* nil test is err == nil).  The variable rev says which revision the      *)
(* program was built from; it never changes.  The variable handler holds   *)
(* the functions the packages call when a write to a fmt.State fails.      *)
(* The variable threads holds the position and the locals of each thread   *)
(* of a program that shares an error between threads.                      *)
(***************************************************************************)
EXTENDS Integers, Sequences, FiniteSets, TLC

VARIABLES heap, last, rev, handler, threads

vars == <<heap, last, rev, handler, threads>>

\* ------------------------------------------------------------------ bounds

\* the largest heap the construction specification builds
MaxNodes == 3
\* the largest heap built on top of a value of a foreign type
MaxNilNodes == 2
\* the largest length of a foreign slice, array or map value
MaxLen == 2
\* the largest additional skip given to AddStackSkip
MaxSkip == 1
\* the largest tree the traversal specification builds
MaxTree == 3

\* the most members a group is given
MaxSub == 3
\* the most nil entries a member list is given
MaxNil == 1

\* the most nodes a visitor stops at
MaxStop == 1
\* the longest message a node is given, in tokens
MaxMsgLen == 3

\* the errors a program of the structured-record specification holds
MaxSlog == 3
\* the errors a program of the formatting specification holds
MaxFormat == 3

\* ----------------------------------------------------------------- strings

Delim == <<": ">>

\* what calling a method through a nil pointer or a nil interface yields
Panic == <<"!panic">>

\* the result of an operation that panicked
PanicRes == 0 - 1

Msgs == {<<"a">>, <<"b">>}

Formats == {<<"%d">>}

FmtArgs == {1}

Digits == <<"0", "1", "2", "3", "4", "5", "6", "7", "8", "9">>

\* fmt.Sprintf with one integer argument: every %d verb becomes its digit
Sprintf(format, arg) ==
    [i \in 1..Len(format) |->
        IF format[i] = "%d" THEN Digits[arg + 1] ELSE format[i]]

\* ------------------------------------------------------------------- nodes

Node(typ, msg, error, stack) ==
    [typ |-> typ, msg |-> msg, error |-> error, sub |-> <<>>, stack |-> stack,
     attrs |-> <<>>, flag |-> FALSE, kind |-> "Pointer", nilv |-> FALSE,
     len |-> 0]

\* a value of a type defined outside the library, such as io.EOF, nilError,
\* (*nilError)(nil) or ErrArray
Foreign(kind, nilv, len, msg) ==
    [typ |-> "foreign", msg |-> msg, error |-> 0, sub |-> <<>>, stack |-> 0,
     attrs |-> <<>>, flag |-> FALSE, kind |-> kind, nilv |-> nilv, len |-> len]

EOF == Foreign("Pointer", FALSE, 0, <<"E", "O", "F">>)

ForeignValues ==
    {Foreign(k, n, 0, <<"f">>) : k \in {"Pointer", "Func"}, n \in BOOLEAN}
    \cup {Foreign("Struct", FALSE, 0, <<"f">>)}
    \cup {Foreign(k, TRUE, 0, <<"f">>) : k \in {"Slice", "Map"}}
    \cup {Foreign(k, FALSE, l, <<"f">>) :
            k \in {"Slice", "Map", "Array"}, l \in 0..MaxLen}

\* the withMessage half of what errors.go's Wrap returns: no reference to it
\* leaves the withStack that embeds it
Embedded(h, i) ==
    \E j \in 1..Len(h) : h[j].typ = "withStack0" /\ h[j].error = i

\* the values the program can hold: nil and every node but the embedded ones
Errs(h) == {0} \cup {i \in 1..Len(h) : ~Embedded(h, i)}

Values(h) == Cardinality(Errs(h)) - 1

Alloc(h, n) == [heap |-> Append(h, n), res |-> Len(h) + 1]

Same(h, e) == [heap |-> h, res |-> e]

\* a captured stack: 0 is no stack, k + 1 a stack captured with k extra
\* frames skipped
NewStack == 1

NewStackSkip(skip) == skip + 1

\* ------------------------------------------------------------------- isNil

ForeignNilLikeValue(n) ==
    n.nilv \/ (n.kind \in {"Slice", "Array", "Map"} /\ n.len = 0)

\* reflect.Value.IsNil: panics for a kind that cannot be nil
ValueIsNil(n) ==
    IF n.kind \in {"Chan", "Func", "Map", "Pointer", "UnsafePointer",
                   "Interface", "Slice"}
    THEN IF n.nilv THEN "true" ELSE "false"
    ELSE "panic"

isNil(h, err) ==
    IF err = 0 THEN "true"
    ELSE LET n == h[err] IN
         CASE n.kind \in {"Pointer", "UnsafePointer", "Interface"} ->
                  ValueIsNil(n)
           [] n.kind \in {"Slice", "Array", "Map"} ->
                  IF ValueIsNil(n) = "false"
                  THEN (IF n.len = 0 THEN "true" ELSE "false")
                  ELSE ValueIsNil(n)
           [] OTHER -> "false"

IsNil(h, err) == isNil(h, err)

\* ----------------------------------------------------------------- methods

\* the types with a method Unwrap() error whose result is the held error
UnwrapTypes ==
    {"addStack", "withMessage", "withMessageNoStack", "structuredErr",
     "ErrorWrap", "errWalkTest", "addStack0", "withMessage0", "wrapError",
     "container"}

\* the types of errors.go whose Unwrap is (*withStack).Unwrap, which unwraps
\* the embedded error once more
DeepUnwrapTypes == {"withStack0", "fundamental0"}

\* the types with a method StackTrace()
StackTracerTypes ==
    {"fundamental", "addStack", "withMessage", "fundamental0", "withStack0",
     "addStack0"}

\* Checks to see if an argument is the empty string
joinZero(delim, str1, str2) ==
    IF str1 = <<>> THEN str2
    ELSE IF str2 = <<>> THEN str1
    ELSE str1 \o delim \o str2

RECURSIVE joinAttrs(_)
joinAttrs(attrs) ==
    IF attrs = <<>> THEN <<>>
    ELSE joinZero(<<" ">>, <<attrs[1][1], "=", attrs[1][2]>>,
                  joinAttrs(Tail(attrs)))

\* the attributes of a record as text: key=value separated by spaces
structureAsText(n) == joinAttrs(n.attrs)

\* ErrorNoUnwrap that leaves the attributes out
structuredErr_MsgOnly(n) == n.msg

structuredErr_ErrorNoUnwrap(n) ==
    LET stext == structureAsText(n)
    IN  IF stext # <<>> THEN joinZero(<<" ">>, n.msg, stext) ELSE n.msg

\* msg + ": " + w.error.Error(), a panic in the inner call propagating
withMessage_Error(msg, inner) ==
    IF inner = Panic THEN Panic ELSE msg \o Delim \o inner

\* whether the methods of a foreign value are called through nil: nilError
\* has a value receiver and ErrArray joins its (no) members
ForeignNilLike(n) == ForeignNilLikeValue(n)

RECURSIVE Error(_, _), joinErrors(_, _)

\* the text of errors.Join(errs...): the members that are not nil, one a
\* line
joinErrors(h, errs) ==
    IF errs = <<>> THEN <<>>
    ELSE IF Head(errs) = 0 THEN joinErrors(h, Tail(errs))
    ELSE IF Error(h, Head(errs)) = Panic \/ joinErrors(h, Tail(errs)) = Panic
    THEN Panic
    ELSE joinZero(<<"\n">>, Error(h, Head(errs)), joinErrors(h, Tail(errs)))

Error(h, e) ==
    IF e <= 0 THEN Panic
    ELSE LET n == h[e] IN
         CASE n.typ = "foreign" ->
                  IF ForeignNilLike(n) THEN Panic ELSE n.msg
           [] n.typ \in {"fundamental", "fundamental0", "errWalkTest",
                           "wrapError", "wrapErrors"} ->
                  n.msg
           [] n.typ = "errorGroup" ->
                  IF \A i \in 1..Len(n.sub) : n.sub[i] = 0 THEN Panic
                  ELSE joinErrors(h, n.sub)
           [] n.typ \in {"addStack", "addStack0", "withStack0", "ErrorWrap",
                           "container"} ->
                  Error(h, n.error)
           [] n.typ \in {"withMessage", "withMessageNoStack", "withMessage0"} ->
                  withMessage_Error(n.msg, Error(h, n.error))
           [] n.typ = "structuredErr" ->
                  IF Error(h, n.error) = Panic THEN Panic
                  ELSE joinZero(Delim, structuredErr_ErrorNoUnwrap(n),
                                Error(h, n.error))

withStack_Unwrap(h, n) == n.error

\* Unwrap uses the Unwrap method to return the next error in the chain or nil
RECURSIVE Unwrap(_, _)
Unwrap(h, err) ==
    IF err <= 0 THEN 0
    ELSE LET n == h[err] IN
         CASE n.typ \in {"addStack", "withMessage"} -> withStack_Unwrap(h, n)
           [] n.typ \in UnwrapTypes -> n.error
           [] n.typ \in DeepUnwrapTypes -> Unwrap(h, n.error)
           [] OTHER -> 0

\* Cause that unwraps one level only
CauseOneLevel(h, err) ==
    IF Unwrap(h, err) = 0 THEN err ELSE Unwrap(h, err)

\* Cause goes all the way to the bottom; if nil is given it returns nil
RECURSIVE Cause(_, _)
Cause(h, err) ==
    LET cause == Unwrap(h, err)
    IN  IF cause = 0 THEN err ELSE Cause(h, cause)

\* the types with a method Unwrap() []error
UnwrapsTypes == {"errorGroup", "wrapErrors"}

\* the types with a method Errors() []error
ErrorGroupTypes == {"errWalkTest"}

\* Unwraps returns the members of an error that defines Unwrap() []error
Unwraps(h, err) ==
    IF err <= 0 THEN <<>>
    ELSE IF h[err].typ \in UnwrapsTypes THEN h[err].sub
    ELSE <<>>

\* the list of errors of an errorGroup, else of an Unwrap() []error
Errors(h, err) ==
    IF err <= 0 THEN <<>>
    ELSE IF h[err].typ \in ErrorGroupTypes THEN h[err].sub
    ELSE IF h[err].typ \in UnwrapsTypes THEN h[err].sub
    ELSE <<>>

\* --------------------------------------------------------------- traversal

NoWalk == [vis |-> <<>>, done |-> FALSE]

NoWalkLevel == [vis |-> <<>>, lev |-> <<>>, done |-> FALSE]

RECURSIVE WalkDeep(_, _, _), WalkDeepErrors(_, _, _)

\* WalkDeep that goes on to the cause after the visitor asked to stop
WalkDeepNoStop(h, err, stop) ==
    IF err = 0 THEN NoWalk
    ELSE LET deep == WalkDeep(h, Unwrap(h, err), stop) IN
         IF deep.done \/ err \in stop
         THEN [vis |-> <<err>> \o deep.vis, done |-> TRUE]
         ELSE LET wide == WalkDeepErrors(h, Errors(h, err), stop)
              IN  [vis |-> <<err>> \o deep.vis \o wide.vis,
                   done |-> wide.done]

\* WalkDeep without its err == nil test: the visitor is given nil
WalkDeepNoNilTest(h, err, stop) ==
    IF err \in stop THEN [vis |-> <<err>>, done |-> TRUE]
    ELSE IF err = 0 THEN [vis |-> <<err>>, done |-> FALSE]
    ELSE LET deep == WalkDeep(h, Unwrap(h, err), stop) IN
         IF deep.done THEN [vis |-> <<err>> \o deep.vis, done |-> TRUE]
         ELSE LET wide == WalkDeepErrors(h, Errors(h, err), stop)
              IN  [vis |-> <<err>> \o deep.vis \o wide.vis,
                   done |-> wide.done]

\* WalkDeep does a depth-first traversal of all errors; the visitor returns
\* true exactly on the nodes of stop
WalkDeep(h, err, stop) ==
    IF err = 0 THEN NoWalk
    ELSE IF err \in stop THEN [vis |-> <<err>>, done |-> TRUE]
    ELSE LET deep == WalkDeep(h, Unwrap(h, err), stop) IN
         IF deep.done THEN [vis |-> <<err>> \o deep.vis, done |-> TRUE]
         ELSE LET wide == WalkDeepErrors(h, Errors(h, err), stop)
              IN  [vis |-> <<err>> \o deep.vis \o wide.vis,
                   done |-> wide.done]

\* the loop over the members of a group
WalkDeepErrors(h, errors, stop) ==
    IF errors = <<>> THEN NoWalk
    ELSE LET first == WalkDeep(h, Head(errors), stop) IN
         IF first.done THEN first
         ELSE LET rest == WalkDeepErrors(h, Tail(errors), stop)
              IN  [vis |-> first.vis \o rest.vis, done |-> rest.done]

RECURSIVE walkDeepLevel(_, _, _, _), walkDeepLevelErrors(_, _, _, _)

\* WalkDeep with the level of depth in the error tree given to the visitor
walkDeepLevel(h, err, stop, stack) ==
    IF err = 0 THEN NoWalkLevel
    ELSE IF err \in stop
    THEN [vis |-> <<err>>, lev |-> <<stack>>, done |-> TRUE]
    ELSE LET deep == walkDeepLevel(h, Unwrap(h, err), stop, stack + 1) IN
         IF deep.done
         THEN [vis |-> <<err>> \o deep.vis, lev |-> <<stack>> \o deep.lev,
               done |-> TRUE]
         ELSE LET wide == walkDeepLevelErrors(h, Errors(h, err), stop,
                                              stack + 1)
              IN  [vis |-> <<err>> \o deep.vis \o wide.vis,
                   lev |-> <<stack>> \o deep.lev \o wide.lev,
                   done |-> wide.done]

walkDeepLevelErrors(h, errors, stop, stack) ==
    IF errors = <<>> THEN NoWalkLevel
    ELSE LET first == walkDeepLevel(h, Head(errors), stop, stack) IN
         IF first.done THEN first
         ELSE LET rest == walkDeepLevelErrors(h, Tail(errors), stop, stack)
              IN  [vis |-> first.vis \o rest.vis,
                   lev |-> first.lev \o rest.lev, done |-> rest.done]

WalkDeepLevel(h, err, stop) == walkDeepLevel(h, err, stop, 0)

RECURSIVE walkUnwrapLevel(_, _, _, _), walkUnwrapLevelErrors(_, _, _, _)

\* structured.go: the walk that asks the value itself for Unwrap() error
\* and Unwrap() []error
walkUnwrapLevel(h, err, stop, stack) ==
    IF err = 0 THEN NoWalkLevel
    ELSE IF err \in stop
    THEN [vis |-> <<err>>, lev |-> <<stack>>, done |-> TRUE]
    ELSE LET deep == IF h[err].typ \in UnwrapTypes \cup DeepUnwrapTypes
                     THEN walkUnwrapLevel(h, Unwrap(h, err), stop, stack + 1)
                     ELSE NoWalkLevel
         IN
         IF deep.done
         THEN [vis |-> <<err>> \o deep.vis, lev |-> <<stack>> \o deep.lev,
               done |-> TRUE]
         ELSE LET wide == walkUnwrapLevelErrors(h, Unwraps(h, err), stop,
                                                stack + 1)
              IN  [vis |-> <<err>> \o deep.vis \o wide.vis,
                   lev |-> <<stack>> \o deep.lev \o wide.lev,
                   done |-> wide.done]

walkUnwrapLevelErrors(h, errors, stop, stack) ==
    IF errors = <<>> THEN NoWalkLevel
    ELSE LET first == walkUnwrapLevel(h, Head(errors), stop, stack) IN
         IF first.done THEN first
         ELSE LET rest == walkUnwrapLevelErrors(h, Tail(errors), stop, stack)
              IN  [vis |-> first.vis \o rest.vis,
                   lev |-> first.lev \o rest.lev, done |-> rest.done]

RECURSIVE WalkDeep0(_, _, _), WalkDeep0Chain(_, _, _), WalkDeep0Errors(_, _, _)

\* errwrap/base.go: the loop down the chain of causes
WalkDeep0Chain(h, unErr, stop) ==
    IF unErr = 0 THEN NoWalk
    ELSE IF unErr \in stop THEN [vis |-> <<unErr>>, done |-> TRUE]
    ELSE LET rest == WalkDeep0Chain(h, Unwrap(h, unErr), stop)
         IN  [vis |-> <<unErr>> \o rest.vis, done |-> rest.done]

\* errwrap/base.go: go deep in a loop, then go wide if err itself is an
\* ErrorGroup
WalkDeep0(h, err, stop) ==
    LET deep == WalkDeep0Chain(h, err, stop) IN
    IF deep.done THEN deep
    ELSE IF err > 0 /\ h[err].typ \in ErrorGroupTypes
    THEN LET wide == WalkDeep0Errors(h, h[err].sub, stop)
         IN  [vis |-> deep.vis \o wide.vis, done |-> wide.done]
    ELSE deep

WalkDeep0Errors(h, errors, stop) ==
    IF errors = <<>> THEN NoWalk
    ELSE LET first == WalkDeep0(h, Head(errors), stop) IN
         IF first.done THEN first
         ELSE LET rest == WalkDeep0Errors(h, Tail(errors), stop)
              IN  [vis |-> first.vis \o rest.vis, done |-> rest.done]

\* UnwrapGroups whose visitor is yield(e): the walk stops where the consumer
\* goes on
UnwrapGroupsYieldAsStop(h, err, brk) ==
    WalkDeep(h, err, (1..Len(h)) \ brk).vis

\* UnwrapGroups: what the iterator yields to a consumer that leaves its
\* loop at the nodes of brk; the visitor is !yield(e)
UnwrapGroups(h, err, brk) == WalkDeep(h, err, brk).vis

\* UnwrapGroupsLevel: the errors and the levels the iterator yields to a
\* consumer that leaves its loop at the nodes of brk
UnwrapGroupsLevel(h, err, brk) == WalkDeepLevel(h, err, brk)

\* Find that keeps walking after a match, so that a later match replaces it
FindLast(h, origErr, test) ==
    LET walk == WalkDeep(h, origErr, {})
        hits == {i \in 1..Len(walk.vis) : walk.vis[i] \in test}
    IN  IF hits = {} THEN 0
        ELSE walk.vis[CHOOSE i \in hits : \A j \in hits : j <= i]

\* Find an error in the chain that matches a test function, nil (0) if no
\* error is found; test holds exactly of the nodes of the set test
Find(h, origErr, test) ==
    LET walk == WalkDeep(h, origErr, test)
    IN  IF walk.done THEN walk.vis[Len(walk.vis)] ELSE 0

\* the first StackTracer in walk order, 0 when there is none
GetStackTracer(h, origErr) ==
    LET tracers == {e \in 1..Len(h) : h[e].typ \in StackTracerTypes}
        walk == WalkDeep(h, origErr, tracers)
    IN  IF walk.done THEN walk.vis[Len(walk.vis)] ELSE 0

\* ---------------------------------------------------------------- HasStack

RECURSIVE HasStack(_, _)

\* HasStack without the test for the HasStack() marker
HasStackNoMarker(h, err) ==
    IF err <= 0 THEN FALSE
    ELSE h[err].typ \in {"fundamental", "addStack", "withMessage",
                         "structuredErr"}

\* errstack.go: the marker or the interfaces of the value itself, no unwrap
HasStack(h, err) ==
    IF err <= 0 THEN FALSE
    ELSE LET n == h[err] IN
         CASE n.typ \in {"fundamental", "addStack", "withMessage",
                         "structuredErr"} -> TRUE
           [] n.typ = "withMessageNoStack" -> HasStack(h, n.error)
           [] OTHER -> FALSE

\* errors.go: the marker, else a search of the chain
HasStack0(h, err) ==
    IF err <= 0 THEN FALSE
    ELSE IF h[err].typ = "withMessage0" THEN h[err].flag
    ELSE GetStackTracer(h, err) # 0

\* ------------------------------------------------- construction, errstack.go

\* New returns an error with the supplied message and records the stack
New(h, message) == Alloc(h, Node("fundamental", message, 0, NewStack))

\* AddStack without the HasStack test
AddStackAlways(h, err) ==
    IF isNil(h, err) = "true" THEN Same(h, 0)
    ELSE Alloc(h, Node("addStack", <<>>, err, NewStack))

AddStack(h, err) ==
    CASE isNil(h, err) = "panic" -> Same(h, PanicRes)
      [] isNil(h, err) = "true" -> Same(h, 0)
      [] OTHER ->
           IF HasStack(h, err) THEN Same(h, err)
           ELSE Alloc(h, Node("addStack", <<>>, err, NewStack))

AddStackSkip(h, err, skip) ==
    CASE isNil(h, err) = "panic" -> Same(h, PanicRes)
      [] isNil(h, err) = "true" -> Same(h, 0)
      [] OTHER ->
           IF HasStack(h, err) THEN Same(h, err)
           ELSE Alloc(h, Node("addStack", <<>>, err, NewStackSkip(skip + 1)))

\* Coalesce with the message put after the one the node has
CoalesceAppend(h, err, message) ==
    [heap |-> [h EXCEPT ![err].msg = @ \o Delim \o message], res |-> err]

\* the branch taken when err is already a *withMessage or a
\* *withMessageNoStack: the message is put before the one the node has
Coalesce(h, err, message) ==
    [heap |-> [h EXCEPT ![err].msg = message \o Delim \o @], res |-> err]

Wrap(h, err, message) ==
    CASE isNil(h, err) = "panic" -> Same(h, PanicRes)
      [] isNil(h, err) = "true" -> Same(h, 0)
      [] OTHER ->
           IF h[err].typ = "withMessage" THEN Coalesce(h, err, message)
           ELSE Alloc(h, Node("withMessage", message, err, NewStack))

Wrapf(h, err, format, arg) ==
    CASE isNil(h, err) = "panic" -> Same(h, PanicRes)
      [] isNil(h, err) = "true" -> Same(h, 0)
      [] OTHER ->
           IF h[err].typ = "withMessage"
           THEN Coalesce(h, err, Sprintf(format, arg))
           ELSE Alloc(h, Node("withMessage", Sprintf(format, arg), err,
                              NewStack))

WrapNoStack(h, err, message) ==
    CASE isNil(h, err) = "panic" -> Same(h, PanicRes)
      [] isNil(h, err) = "true" -> Same(h, 0)
      [] OTHER ->
           IF h[err].typ = "withMessageNoStack"
           THEN Coalesce(h, err, message)
           ELSE Alloc(h, Node("withMessageNoStack", message, err, 0))

\* ------------------------------------------------ construction, structured.go

AttrLists == {<<>>, <<<<"k", "1">>>>}

\* wrapsSkip without its err == nil test
wrapsSkipNoNilTest(h, err, msg, skip, args) ==
    Alloc(h, [Node("structuredErr", msg, err, NewStackSkip(skip + 3))
                EXCEPT !.attrs = args, !.kind = "Struct"])

wrapsSkip(h, err, msg, skip, args) ==
    IF err = 0 THEN Same(h, 0)
    ELSE Alloc(h, [Node("structuredErr", msg, err, NewStackSkip(skip + 3))
                     EXCEPT !.attrs = args, !.kind = "Struct"])

Wraps(h, err, msg, args) == wrapsSkip(h, err, msg, 1, args)

\* --------------------------------------------------- construction, errors.go

New0(h, message) == Alloc(h, Node("fundamental0", message, 0, NewStack))

AddStack0(h, err) ==
    IF err = 0 THEN Same(h, 0)
    ELSE IF HasStack0(h, err) THEN Same(h, err)
    ELSE Alloc(h, Node("addStack0", <<>>, err, NewStack))

AddStackSkip0(h, err, skip) ==
    IF err = 0 THEN Same(h, 0)
    ELSE IF HasStack0(h, err) THEN Same(h, err)
    ELSE Alloc(h, Node("addStack0", <<>>, err, NewStackSkip(skip + 3)))

WithMessage0(h, err, message) ==
    IF err = 0 THEN Same(h, 0)
    ELSE Alloc(h, [Node("withMessage0", message, err, 0)
                     EXCEPT !.flag = HasStack0(h, err)])

\* &withStack{&withMessage{...}, callers()}: two nodes
Wrap0(h, err, message) ==
    IF err = 0 THEN Same(h, 0)
    ELSE LET inner == WithMessage0(h, err, message)
         IN  Alloc(inner.heap, Node("withStack0", <<>>, inner.res, NewStack))

Wrapf0(h, err, format, arg) ==
    IF err = 0 THEN Same(h, 0)
    ELSE LET inner == WithMessage0(h, err, Sprintf(format, arg))
         IN  Alloc(inner.heap, Node("withStack0", <<>>, inner.res, NewStack))

\* ------------------------------------------------------------------ actions

\* what a step records of the call it made: the operation, its arguments,
\* its result, and what the argument looked like before the call
Call(op, err, msg, r, cap) ==
    /\ Values(r.heap) <= cap
    /\ \A i \in 1..Len(r.heap) : Len(r.heap[i].msg) <= MaxMsgLen
    /\ heap' = r.heap
    /\ last' = [op |-> op, err |-> err, msg |-> msg, res |-> r.res,
                pre |-> Error(heap, err),
                preHas |-> IF rev = "errors" THEN HasStack0(heap, err)
                           ELSE HasStack(heap, err),
                preLen |-> Len(heap),
                out |-> IF op = "IsNil" THEN IsNil(heap, err) ELSE "",
                stop |-> {}, vis |-> <<>>, lev |-> <<>>, done |-> FALSE]
    /\ UNCHANGED <<rev, handler, threads>>

\* what a step records of a walk: the root, the nodes the visitor stops
\* at, the nodes it was given in order, their levels, and the result
Walked(op, err, stop, vis, lev, done) ==
    /\ last' = [op |-> op, err |-> err, msg |-> <<>>, res |-> 0,
                pre |-> Panic, preHas |-> FALSE, preLen |-> Len(heap),
                out |-> "", stop |-> stop, vis |-> vis, lev |-> lev,
                done |-> done]
    /\ UNCHANGED <<heap, rev, handler, threads>>

NewOp(cap) ==
    \E m \in Msgs :
        /\ rev = "errstack"
        /\ Call("New", 0, m, New(heap, m), cap)

WrapOp(cap) ==
    \E err \in Errs(heap), m \in Msgs :
        /\ rev = "errstack"
        /\ Call("Wrap", err, m, Wrap(heap, err, m), cap)

WrapfOp(cap) ==
    \E err \in Errs(heap), f \in Formats, a \in FmtArgs :
        /\ rev = "errstack"
        /\ Call("Wrapf", err, Sprintf(f, a), Wrapf(heap, err, f, a), cap)

WrapNoStackOp(cap) ==
    \E err \in Errs(heap), m \in Msgs :
        /\ rev = "errstack"
        /\ Call("WrapNoStack", err, m, WrapNoStack(heap, err, m), cap)

AddStackOp(cap) ==
    \E err \in Errs(heap) :
        /\ rev = "errstack"
        /\ Call("AddStack", err, <<>>, AddStack(heap, err), cap)

AddStackSkipOp(cap) ==
    \E err \in Errs(heap), skip \in 0..MaxSkip :
        /\ rev = "errstack"
        /\ Call("AddStackSkip", err, <<>>, AddStackSkip(heap, err, skip), cap)

WrapsOp(cap) ==
    \E err \in Errs(heap), m \in Msgs, args \in AttrLists :
        /\ rev = "errstack"
        /\ Call("Wraps", err, m, Wraps(heap, err, m, args), cap)

IsNilOp(cap) ==
    \E err \in Errs(heap) :
        /\ rev = "errstack"
        /\ Call("IsNil", err, <<>>, Same(heap, 0), cap)

New0Op(cap) ==
    \E m \in Msgs :
        /\ rev = "errors"
        /\ Call("New", 0, m, New0(heap, m), cap)

Wrap0Op(cap) ==
    \E err \in Errs(heap), m \in Msgs :
        /\ rev = "errors"
        /\ Call("Wrap", err, m, Wrap0(heap, err, m), cap)

Wrapf0Op(cap) ==
    \E err \in Errs(heap), f \in Formats, a \in FmtArgs :
        /\ rev = "errors"
        /\ Call("Wrapf", err, Sprintf(f, a), Wrapf0(heap, err, f, a), cap)

WithMessage0Op(cap) ==
    \E err \in Errs(heap), m \in Msgs :
        /\ rev = "errors"
        /\ Call("WithMessage", err, m, WithMessage0(heap, err, m), cap)

AddStack0Op(cap) ==
    \E err \in Errs(heap) :
        /\ rev = "errors"
        /\ Call("AddStack", err, <<>>, AddStack0(heap, err), cap)

AddStackSkip0Op(cap) ==
    \E err \in Errs(heap), skip \in 0..MaxSkip :
        /\ rev = "errors"
        /\ Call("AddStackSkip", err, <<>>, AddStackSkip0(heap, err, skip), cap)

CauseOp(cap) ==
    \E err \in Errs(heap) :
        Call("Cause", err, <<>>, Same(heap, Cause(heap, err)), cap)

NoCall ==
    [op |-> "none", err |-> 0, msg |-> <<>>, res |-> 0, pre |-> Panic,
     preHas |-> FALSE, preLen |-> 0, out |-> "", stop |-> {}, vis |-> <<>>,
     lev |-> <<>>, done |-> FALSE]

Revs == {"errstack", "errors"}

\* var handleFmtWriteError of package errors and of package slogerr: both
\* a program with one thread, which the steps of last describe
NoThreads == <<>>

\* print the error with log.Println until a handler is installed
DefaultHandlers == [errors |-> "log.Println", slogerr |-> "log.Println"]

\* the program holds io.EOF
Init ==
    /\ rev \in Revs
    /\ heap = <<EOF>>
    /\ last = NoCall
    /\ handler = DefaultHandlers
    /\ threads = NoThreads

\* the program holds one value of a foreign type
InitNil ==
    /\ rev \in Revs
    /\ heap \in {<<f>> : f \in ForeignValues}
    /\ last = NoCall
    /\ handler = DefaultHandlers
    /\ threads = NoThreads

Construct(cap) ==
    \/ NewOp(cap)
    \/ WrapOp(cap)
    \/ WrapfOp(cap)
    \/ WrapNoStackOp(cap)
    \/ AddStackOp(cap)
    \/ AddStackSkipOp(cap)
    \/ WrapsOp(cap)
    \/ New0Op(cap)
    \/ Wrap0Op(cap)
    \/ Wrapf0Op(cap)
    \/ WithMessage0Op(cap)
    \/ AddStack0Op(cap)
    \/ AddStackSkip0Op(cap)

Next == Construct(MaxNodes)

NextNil == Construct(MaxNilNodes) \/ IsNilOp(MaxNilNodes)

Spec == Init /\ [][Next]_vars

SpecNil == InitNil /\ [][NextNil]_vars

\* ----------------------------------------------------------- error trees

\* the nodes no other node holds
Roots(h) ==
    {i \in 1..Len(h) :
        \A j \in 1..Len(h) :
            /\ h[j].error # i
            /\ \A k \in 1..Len(h[j].sub) : h[j].sub[k] # i}

\* the member lists a new group can be given: roots, each at most once,
\* and up to MaxNil nil entries
SubLists(h) ==
    {s \in UNION {[1..n -> Roots(h) \cup {0}] : n \in 0..MaxSub} :
        /\ \A i, j \in 1..Len(s) : (i # j /\ s[i] = s[j]) => s[i] = 0
        /\ Cardinality({i \in 1..Len(s) : s[i] = 0}) <= MaxNil}

\* the k roots built last
Top(h, k) ==
    {r \in Roots(h) : Cardinality({q \in Roots(h) : q > r}) < k}

\* a literal is built inside out: the errors a new node holds are the roots
\* built last
Nested(h, cause, sub) ==
    LET held == ({cause} \cup {sub[i] : i \in 1..Len(sub)}) \ {0}
    IN  held = Top(h, Cardinality(held))

\* the visitors: one that never stops and those that stop at up to MaxStop
\* nodes
StopSets(h) == {s \in SUBSET (1..Len(h)) : Cardinality(s) <= MaxStop}

\* &errWalkTest{cause: cause, sub: sub}
ErrWalkTestOp ==
    \E cause \in Roots(heap) \cup {0}, sub \in SubLists(heap) :
        /\ Len(heap) < MaxTree
        /\ \A i \in 1..Len(sub) : sub[i] = 0 \/ sub[i] # cause
        /\ Nested(heap, cause, sub)
        /\ heap' = Append(heap,
                [Node("errWalkTest", <<"v">>, cause, 0) EXCEPT !.sub = sub])
        /\ last' = [NoCall EXCEPT !.op = "errWalkTest", !.res = Len(heap) + 1]
        /\ UNCHANGED <<rev, handler, threads>>

\* &errorGroup{errs: sub}
ErrorGroupOp ==
    \E sub \in SubLists(heap) :
        /\ Len(heap) < MaxTree
        /\ sub # <<>>
        /\ Nested(heap, 0, sub)
        /\ heap' = Append(heap,
                [Node("errorGroup", <<>>, 0, 0) EXCEPT !.sub = sub])
        /\ last' = [NoCall EXCEPT !.op = "errorGroup", !.res = Len(heap) + 1]
        /\ UNCHANGED <<rev, handler, threads>>

\* AddStack given the error built last
AddStackTreeOp ==
    \E err \in Top(heap, 1) :
        /\ Len(heap) < MaxTree
        /\ Call("AddStack", err, <<>>, AddStack(heap, err), MaxTree)

WalkDeepOp ==
    \E err \in Top(heap, 1) \cup {0}, stop \in StopSets(heap) :
        LET w == WalkDeep(heap, err, stop)
        IN  Walked("WalkDeep", err, stop, w.vis, <<>>, w.done)

WalkDeep0Op ==
    \E err \in Top(heap, 1) \cup {0}, stop \in StopSets(heap) :
        LET w == WalkDeep0(heap, err, stop)
        IN  Walked("WalkDeep0", err, stop, w.vis, <<>>, w.done)

WalkDeepLevelOp ==
    \E err \in Top(heap, 1) \cup {0}, stop \in StopSets(heap) :
        LET w == WalkDeepLevel(heap, err, stop)
        IN  Walked("WalkDeepLevel", err, stop, w.vis, w.lev, w.done)

walkUnwrapLevelOp ==
    \E err \in Top(heap, 1) \cup {0}, stop \in StopSets(heap) :
        LET w == walkUnwrapLevel(heap, err, stop, 0)
        IN  Walked("walkUnwrapLevel", err, stop, w.vis, w.lev, w.done)

\* for e := range UnwrapGroups(err), left at the nodes of brk
UnwrapGroupsOp ==
    \E err \in Top(heap, 1) \cup {0}, brk \in StopSets(heap) :
        LET vis == UnwrapGroups(heap, err, brk)
        IN  Walked("UnwrapGroups", err, brk, vis, <<>>,
                   vis # <<>> /\ vis[Len(vis)] \in brk)

\* the test functions: each holds of a set of nodes
TestSets(h) == SUBSET (1..Len(h))

\* what a step records of a search: the root, the nodes the test holds of
\* and the node returned
Found(op, err, test, res) ==
    /\ last' = [NoCall EXCEPT !.op = op, !.err = err, !.stop = test,
                             !.res = res, !.preLen = Len(heap)]
    /\ UNCHANGED <<heap, rev, handler, threads>>

FindOp ==
    \E err \in Top(heap, 1) \cup {0}, test \in TestSets(heap) :
        Found("Find", err, test, Find(heap, err, test))

GetStackTracerOp ==
    \E err \in Top(heap, 1) \cup {0} :
        Found("GetStackTracer", err, {}, GetStackTracer(heap, err))

\* the program holds no error yet
InitWalk ==
    /\ rev = "errstack"
    /\ heap = <<>>
    /\ last = NoCall
    /\ handler = DefaultHandlers
    /\ threads = NoThreads

\* for level, e := range UnwrapGroupsLevel(err), left at the nodes of brk
UnwrapGroupsLevelOp ==
    \E err \in Top(heap, 1) \cup {0}, brk \in StopSets(heap) :
        LET w == UnwrapGroupsLevel(heap, err, brk)
        IN  Walked("UnwrapGroupsLevel", err, brk, w.vis, w.lev,
                   w.vis # <<>> /\ w.vis[Len(w.vis)] \in brk)

NextWalk ==
    \/ ErrWalkTestOp
    \/ ErrorGroupOp
    \/ AddStackTreeOp
    \/ WalkDeepOp
    \/ WalkDeep0Op
    \/ WalkDeepLevelOp
    \/ walkUnwrapLevelOp
    \/ UnwrapGroupsOp
    \/ UnwrapGroupsLevelOp
    \/ CauseOp(MaxTree)
    \/ FindOp
    \/ GetStackTracerOp

SpecWalk == InitWalk /\ [][NextWalk]_vars

\* ------------------------------------------------------- structured records

\* HasPrefix that holds of a proper prefix only
HasProperPrefix(s, prefix) ==
    /\ Len(s) > Len(prefix)
    /\ SubSeq(s, 1, Len(prefix)) = prefix

\* strings.HasPrefix
HasPrefix(s, prefix) ==
    /\ Len(s) >= Len(prefix)
    /\ SubSeq(s, 1, Len(prefix)) = prefix

\* strings.Join
RECURSIVE Join(_, _)
Join(elems, sep) ==
    IF elems = <<>> THEN <<>>
    ELSE IF Len(elems) = 1 THEN elems[1]
    ELSE elems[1] \o sep \o Join(Tail(elems), sep)

\* the types with the methods Unwrap() error and ErrorNoUnwrap() string
ErrorUnwrapTypes ==
    {"addStack", "withMessage", "withMessageNoStack", "structuredErr",
     "withMessage0"}

\* ErrorNoUnwrap: the message of the wrapping alone
ErrorNoUnwrap(h, e) ==
    LET n == h[e] IN
    CASE n.typ = "addStack" -> <<>>
      [] n.typ \in {"withMessage", "withMessageNoStack", "withMessage0"} ->
             n.msg
      [] n.typ = "structuredErr" -> structuredErr_ErrorNoUnwrap(n)
      [] n.typ = "fundamental0" -> Error(h, e)

\* the types with a method GetSlogRecord()
HasSlogRecordTypes == {"structuredErr"}

\* the types with a method SlogMsg()
SlogMessagerTypes == {"structuredErr"}

\* a value of a type defined outside the library that is an error and an
\* slog.LogValuer: attrs holds the attributes of the group LogValue() returns
ErrLogValuer ==
    [Foreign("Struct", FALSE, 0, <<"v">>) EXCEPT !.attrs = <<<<"g", "2">>>>]

\* whether a value is a valuerError
IsValuerError(n) == n.typ = "foreign" /\ n.attrs # <<>>

\* Slog: a structured error over errors.New("") of the standard library
Slog(h, msg, args) ==
    LET cause == Alloc(h, Foreign("Pointer", FALSE, 0, <<>>))
    IN  wrapsSkip(cause.heap, cause.res, msg, 1, args)

\* no record: the nil *slog.Record
NilRecord == [nil |-> TRUE, Message |-> <<>>, attrs |-> <<>>, PC |-> 0]

\* slogMsg that gives the message with the attributes as text
slogMsgWithAttrs(h, e) == structuredErr_ErrorNoUnwrap(h[e])

\* slogMsg: the message of a SlogMessager or of a HasSlogRecord
slogMsg(h, e) == h[e].msg

slogMsgOrError(h, e) ==
    IF h[e].typ \in SlogMessagerTypes \cup HasSlogRecordTypes
    THEN slogMsg(h, e)
    ELSE Error(h, e)

\* the record of a valuerError, the program counter taken skip frames up
toSlogRecord(h, e, skip) ==
    [nil |-> FALSE, Message |-> slogMsgOrError(h, e), attrs |-> h[e].attrs,
     PC |-> NewStackSkip(IF skip <= 0 THEN 2 ELSE skip)]

\* mergeRecord without the branch for an error that is an slog.LogValuer
mergeRecordNoValuer(record, h, e, stack) ==
    LET n == h[e] IN
    IF n.typ \notin HasSlogRecordTypes THEN record
    ELSE IF record.nil
    THEN [nil |-> FALSE, Message |-> n.msg, attrs |-> n.attrs, PC |-> n.stack]
    ELSE [record EXCEPT !.attrs = @ \o n.attrs]

\* the first half of SlogRecord's visitor: the record is cloned from the
\* first node that has one, the attributes of the later ones are added
mergeRecord(record, h, e, stack) ==
    LET n == h[e] IN
    IF n.typ \in HasSlogRecordTypes
    THEN IF record.nil
         THEN [nil |-> FALSE, Message |-> n.msg, attrs |-> n.attrs,
               PC |-> n.stack]
         ELSE [record EXCEPT !.attrs = @ \o n.attrs,
                             !.PC = IF @ = 0 /\ n.stack # 0
                                    THEN n.stack ELSE @]
    ELSE IF IsValuerError(n)
    THEN IF record.nil THEN toSlogRecord(h, e, 5 + stack)
         ELSE [record EXCEPT !.attrs = @ \o n.attrs]
    ELSE record

\* the second half of SlogRecord's visitor: messages are gathered until a
\* second error that gives no message of its own
gatherMsgs(st, h, e) ==
    IF st.msgDone THEN st
    ELSE LET newErrMsg == Error(h, e)
             unrec == IF st.msgUnrecognized # <<>>
                         /\ HasPrefix(newErrMsg, st.msgUnrecognized)
                      THEN <<>> ELSE st.msgUnrecognized
             s == [st EXCEPT !.msgUnrecognized = unrec]
         IN
         CASE h[e].typ \in SlogMessagerTypes \cup HasSlogRecordTypes ->
                  IF slogMsg(h, e) # <<>>
                     /\ (unrec = <<>> \/ HasPrefix(slogMsg(h, e), unrec))
                  THEN [s EXCEPT !.msgs = Append(@, slogMsg(h, e)),
                                 !.msgUnrecognized = <<>>]
                  ELSE s
           [] h[e].typ \in ErrorUnwrapTypes ->
                  IF ErrorNoUnwrap(h, e) # <<>>
                     /\ (unrec = <<>> \/ HasPrefix(unrec, ErrorNoUnwrap(h, e)))
                  THEN [s EXCEPT !.msgs = Append(@, ErrorNoUnwrap(h, e)),
                                 !.msgUnrecognized = <<>>]
                  ELSE s
           [] unrec = <<>> ->
                  IF s.msgs = <<>> \/ newErrMsg # s.msgs[Len(s.msgs)]
                  THEN [s EXCEPT !.msgUnrecognized = newErrMsg]
                  ELSE s
           [] OTHER ->
                  [s EXCEPT !.msgs = Append(@, unrec), !.msgDone = TRUE]

RECURSIVE visitAll(_, _, _, _)

\* the visitor of SlogRecord given the nodes of the walk in turn; it never
\* asks the walk to stop
visitAll(st, h, vis, lev) ==
    IF vis = <<>> THEN st
    ELSE visitAll([gatherMsgs(st, h, Head(vis)) EXCEPT
                      !.record = mergeRecord(st.record, h, Head(vis),
                                             Head(lev))],
                  h, Tail(vis), Tail(lev))

\* SlogRecord without the addition of the attributes of the later records
SlogRecordFirstOnly(h, inputErr) ==
    LET w == walkUnwrapLevel(h, inputErr, {}, 0)
        first == SelectSeq(w.vis, LAMBDA e : h[e].typ \in HasSlogRecordTypes
                                             \/ IsValuerError(h[e]))
        st == visitAll([msgs |-> <<>>, record |-> NilRecord,
                        msgDone |-> FALSE, msgUnrecognized |-> <<>>],
                       h, w.vis, w.lev)
    IN  IF first = <<>> THEN NilRecord
        ELSE [st.record EXCEPT !.attrs = h[first[1]].attrs]

\* SlogRecord traverses the error chain to look for slog Records; all
\* records are merged and the message strings are joined together
SlogRecord(h, inputErr) ==
    LET w == walkUnwrapLevel(h, inputErr, {}, 0)
        st == visitAll([msgs |-> <<>>, record |-> NilRecord,
                        msgDone |-> FALSE, msgUnrecognized |-> <<>>],
                       h, w.vis, w.lev)
        msgs == IF ~st.msgDone /\ st.msgUnrecognized # <<>>
                THEN Append(st.msgs, st.msgUnrecognized)
                ELSE st.msgs
    IN  IF st.record.nil THEN NilRecord
        ELSE [st.record EXCEPT !.Message = Join(msgs, Delim)]

\* the messages given to the wrapping functions, the empty one among them
SlogMsgs == {<<>>, <<"a">>, <<"b">>}

\* the attributes given to Wraps and Slog: none, one pair, two pairs
SlogArgs == AttrLists \cup {<<<<"k", "1">>, <<"i", "3">>>>}

\* Wrap(err, m) given the error built last
WrapTopOp(msgs, cap) ==
    \E err \in Top(heap, 1), m \in msgs :
        Call("Wrap", err, m, Wrap(heap, err, m), cap)

\* WrapNoStack(err, m) given the error built last
WrapNoStackTopOp(msgs, cap) ==
    \E err \in Top(heap, 1), m \in msgs :
        Call("WrapNoStack", err, m, WrapNoStack(heap, err, m), cap)

\* AddStack(err) given the error built last
AddStackTopOp(cap) ==
    \E err \in Top(heap, 1) :
        Call("AddStack", err, <<>>, AddStack(heap, err), cap)

\* Wraps(err, m, args...) given the error built last, or nil
WrapsTopOp(msgs, lists, cap) ==
    \E err \in Top(heap, 1) \cup {0}, m \in msgs, args \in lists :
        Call("Wraps", err, m, Wraps(heap, err, m, args), cap)

\* Slog(m, args...)
SlogOp ==
    \E m \in SlogMsgs, args \in SlogArgs :
        Call("Slog", 0, m, Slog(heap, m, args), MaxSlog)

\* &errorGroup{errs: []error{a, b}} of the two errors built last
JoinTopOp ==
    \E a, b \in Top(heap, 2) :
        /\ a < b
        /\ Values(heap) < MaxSlog
        /\ heap' = Append(heap,
                [Node("errorGroup", <<>>, 0, 0) EXCEPT !.sub = <<a, b>>])
        /\ last' = [NoCall EXCEPT !.op = "errorGroup", !.res = Len(heap) + 1]
        /\ UNCHANGED <<rev, handler, threads>>

\* err.ErrorNoUnwrap() of the error built last
ErrorNoUnwrapOp ==
    \E err \in Top(heap, 1) :
        /\ heap[err].typ \in ErrorUnwrapTypes
        /\ Call("ErrorNoUnwrap", err, ErrorNoUnwrap(heap, err),
                Same(heap, err), MaxSlog)

\* SlogRecord(err) of the error built last, or of nil
SlogRecordOp ==
    \E err \in Top(heap, 1) \cup {0} :
        /\ last' = [NoCall EXCEPT !.op = "SlogRecord", !.err = err,
                                  !.preLen = Len(heap),
                                  !.out = SlogRecord(heap, err)]
        /\ UNCHANGED <<heap, rev, handler, threads>>

\* container{err}: a struct that embeds the error and defines Unwrap
Container(h, err) ==
    Alloc(h, [Node("container", <<>>, err, 0) EXCEPT !.kind = "Struct"])

\* SlogRecord(container{err}) of the error built last
SlogRecordContainerOp ==
    \E err \in Top(heap, 1) :
        LET c == Container(heap, err)
        IN  /\ last' = [NoCall EXCEPT !.op = "SlogRecordContainer",
                                      !.err = err, !.preLen = Len(heap),
                                      !.out = SlogRecord(c.heap, c.res)]
            /\ UNCHANGED <<heap, rev, handler, threads>>

\* the program holds no error yet, or io.EOF, or an error that is an
\* slog.LogValuer
InitSlog ==
    /\ rev = "errstack"
    /\ heap \in {<<>>, <<EOF>>, <<ErrLogValuer>>}
    /\ last = NoCall
    /\ handler = DefaultHandlers
    /\ threads = NoThreads

NextSlog ==
    \/ NewOp(MaxSlog)
    \/ WrapTopOp(SlogMsgs, MaxSlog)
    \/ WrapNoStackTopOp(SlogMsgs, MaxSlog)
    \/ AddStackTopOp(MaxSlog)
    \/ WrapsTopOp(SlogMsgs, SlogArgs, MaxSlog)
    \/ SlogOp
    \/ JoinTopOp
    \/ ErrorNoUnwrapOp
    \/ SlogRecordOp
    \/ SlogRecordContainerOp

SpecSlog == InitSlog /\ [][NextSlog]_vars

\* -------------------------------------------------------------- formatting

\* the verbs Format is given: %s, %v, %+v, %q
Verbs == {"s", "v", "+v", "q"}

\* the fmt.State written to: one that takes every write, and one whose
\* Write returns an error every time
Sinks == {"ok", "failing"}

\* the functions a program installs with HandleFmtWriteError
Handlers == {"h1", "h2"}

\* the messages and attributes of the errors that are formatted
FmtMsgs == {<<>>, <<"a">>}

\* a write to the fmt.State: its text and the function that makes it
Write(by, text) == <<[by |-> by, text |-> text]>>

\* the text %q gives for a string without characters to escape
Quote(str) == <<"\"">> \o str \o <<"\"">>

\* the text of a stack printed with %+v: a new line and the frame
StackText(stack) == <<"\n", "frame", Digits[stack + 1]>>

\* StackTrace.Format and Stack.Format: fmt.Fprintf(s, "\n%+v", f) for the
\* frames
StackTrace_Format(stack) == Write("Fprintf", StackText(stack))

\* the types with a method Format
FormatterTypes ==
    {"fundamental", "addStack", "withMessage", "withMessageNoStack",
     "structuredErr"}

\* hasStack of structured.go: the marker or the interfaces of the value
hasStack(h, err) == HasStack(h, err)

RECURSIVE Format(_, _, _)

formatterPlusV(h, err) ==
    IF h[err].typ \in FormatterTypes THEN Format(h, err, "+v")
    ELSE Write("Fprintf", Error(h, err))

fundamental_Format(h, f, verb) ==
    CASE verb = "+v" ->
             Write("writeString", Error(h, f)) \o StackTrace_Format(h[f].stack)
      [] verb \in {"s", "v"} -> Write("writeString", Error(h, f))
      [] verb = "q" -> Write("Fprintf", Quote(Error(h, f)))

formatErrorUnwrap(h, err, verb) ==
    CASE verb = "+v" ->
             formatterPlusV(h, h[err].error)
             \o (IF ErrorNoUnwrap(h, err) # <<>>
                 THEN Write("writeString", <<"\n">> \o ErrorNoUnwrap(h, err))
                 ELSE <<>>)
             \o (IF h[err].typ \in StackTracerTypes
                 THEN StackTrace_Format(h[err].stack) ELSE <<>>)
      [] verb \in {"s", "v"} -> Write("writeString", Error(h, err))
      [] verb = "q" -> Write("Fprintf", Quote(Error(h, err)))

structuredErr_Format(h, se, verb) ==
    IF verb = "+v"
    THEN formatterPlusV(h, h[se].error)
         \o (IF ~hasStack(h, h[se].error)
             THEN IF GetStackTracer(h, h[se].error) # 0
                  THEN StackTrace_Format(
                           h[GetStackTracer(h, h[se].error)].stack)
                  ELSE StackTrace_Format(h[se].stack)
             ELSE <<>>)
         \o Write("writeStringSlogerr",
                  <<"\n">> \o joinZero(<<" ">>, h[se].msg,
                                       structureAsText(h[se])))
    ELSE Write("writeStringSlogerr", Error(h, se))

\* the writes err.Format(s, verb) makes, in order
Format(h, err, verb) ==
    CASE h[err].typ = "fundamental" -> fundamental_Format(h, err, verb)
      [] h[err].typ = "structuredErr" -> structuredErr_Format(h, err, verb)
      [] OTHER -> formatErrorUnwrap(h, err, verb)

RECURSIVE TextOf(_)
TextOf(writes) ==
    IF writes = <<>> THEN <<>>
    ELSE Head(writes).text \o TextOf(Tail(writes))

\* writeString hands the error of a failed write to the handler of its
\* package; fmt.Fprintf returns the error to a caller that drops it
RECURSIVE Handled(_, _)
Handled(writes, hnd) ==
    IF writes = <<>> THEN <<>>
    ELSE (CASE Head(writes).by = "writeString" -> <<hnd.errors>>
            [] Head(writes).by = "writeStringSlogerr" -> <<hnd.slogerr>>
            [] OTHER -> <<>>)
         \o Handled(Tail(writes), hnd)

\* what a program sees of a call of Format: the text the sink took, the
\* handlers called in order, and the writes whose error nobody was given
Formatted(h, err, verb, sink, hnd) ==
    LET writes == Format(h, err, verb) IN
    [verb |-> verb, sink |-> sink, writes |-> Len(writes),
     text |-> IF sink = "ok" THEN TextOf(writes) ELSE <<>>,
     handled |-> IF sink = "ok" THEN <<>> ELSE Handled(writes, hnd),
     dropped |-> IF sink = "ok" THEN 0
                 ELSE Len(SelectSeq(writes, LAMBDA w : w.by = "Fprintf"))]

\* fmt.Fprintf(s, "%" + verb, err) for the error built last
FormatOp ==
    \E err \in Top(heap, 1), verb \in Verbs, sink \in Sinks :
        /\ heap[err].typ \in FormatterTypes
        /\ last' = [NoCall EXCEPT
                       !.op = "Format", !.err = err, !.preLen = Len(heap),
                       !.out = Formatted(heap, err, verb, sink, handler)]
        /\ UNCHANGED <<heap, rev, handler, threads>>

\* HandleFmtWriteError(f): the handler of every package is replaced
HandleFmtWriteErrorOp ==
    \E f \in Handlers :
        /\ handler' = [errors |-> f, slogerr |-> f]
        /\ last' = [NoCall EXCEPT !.op = "HandleFmtWriteError",
                                  !.preLen = Len(heap)]
        /\ UNCHANGED <<heap, rev, threads>>

\* the program holds no error yet, or io.EOF
InitFormat ==
    /\ rev = "errstack"
    /\ heap \in {<<>>, <<EOF>>}
    /\ last = NoCall
    /\ handler = DefaultHandlers
    /\ threads = NoThreads

NextFormat ==
    \/ NewOp(MaxFormat)
    \/ WrapTopOp(FmtMsgs, MaxFormat)
    \/ WrapNoStackTopOp(FmtMsgs, MaxFormat)
    \/ AddStackTopOp(MaxFormat)
    \/ WrapsTopOp(FmtMsgs, AttrLists, MaxFormat)
    \/ FormatOp
    \/ HandleFmtWriteErrorOp

SpecFormat == InitFormat /\ [][NextFormat]_vars

\* -------------------------------------------------------- wrapping in place

MaxWrap == 4

\* the types with a method WrapError
ErrorWrapperTypes == {"ErrorWrap"}

NewErrorWrap(h, err) == Alloc(h, Node("ErrorWrap", <<>>, err, 0))

\* stderrors.As with a target of type ErrorWrapper: the first node of that
\* type, going through Unwrap() error and then through Unwrap() []error
RECURSIVE AsType(_, _), AsTypeIn(_, _, _)
AsTypeIn(h, sub, i) ==
    IF i > Len(sub) THEN 0
    ELSE IF AsType(h, sub[i]) # 0 THEN AsType(h, sub[i])
    ELSE AsTypeIn(h, sub, i + 1)

AsType(h, err) ==
    IF err <= 0 THEN 0
    ELSE IF h[err].typ \in ErrorWrapperTypes THEN err
    ELSE IF h[err].typ \in UnwrapsTypes THEN AsTypeIn(h, h[err].sub, 1)
    ELSE AsType(h, Unwrap(h, err))

\* the wrapping functions, as the call each of them makes
WrapFn(msg) == [fn |-> "Wrap", msg |-> msg, arg |-> 0, args |-> <<>>]

WrapfFn(format, arg) ==
    [fn |-> "Wrapf", msg |-> format, arg |-> arg, args |-> <<>>]

WrapsFn(msg, args) == [fn |-> "Wraps", msg |-> msg, arg |-> 0, args |-> args]

\* wrap(err)
CallWrap(h, wrap, err) ==
    CASE wrap.fn = "Wrap" -> Wrap(h, err, wrap.msg)
      [] wrap.fn = "Wrapf" -> Wrapf(h, err, wrap.msg, wrap.arg)
      [] wrap.fn = "Wraps" -> Wraps(h, err, wrap.msg, wrap.args)

\* WrapError that gives wrap the holder in place of the error it holds
WrapErrorOfHolder(h, ew, wrap) ==
    LET r == CallWrap(h, wrap, ew)
    IN  [heap |-> [r.heap EXCEPT ![ew].error = r.res], res |-> ew]

\* ew.error = wrap(ew.error)
WrapError(h, ew, wrap) ==
    LET r == CallWrap(h, wrap, h[ew].error)
    IN  IF r.res = PanicRes THEN Same(h, PanicRes)
        ELSE [heap |-> [r.heap EXCEPT ![ew].error = r.res], res |-> ew]

\* the result: the holder that was wrapped (0 if none), what was returned
\* and how many times wrap was called
WrapInPlace(h, err, wrap) ==
    CASE isNil(h, err) = "panic" ->
           [heap |-> h, res |-> PanicRes, ret |-> "panic", calls |-> 0]
      [] isNil(h, err) = "true" ->
           [heap |-> h, res |-> 0, ret |-> "false", calls |-> 0]
      [] OTHER ->
           LET inPlace == AsType(h, err)
               r == WrapError(h, inPlace, wrap)
           IN  IF inPlace = 0
               THEN [heap |-> h, res |-> 0, ret |-> "false", calls |-> 0]
               ELSE IF r.res = PanicRes
               THEN [heap |-> h, res |-> PanicRes, ret |-> "panic",
                     calls |-> 1]
               ELSE [heap |-> r.heap, res |-> inPlace, ret |-> "true",
                     calls |-> 1]

\* the text a wrapping function puts in front
WrapText(wrap) ==
    CASE wrap.fn = "Wrap" -> wrap.msg
      [] wrap.fn = "Wrapf" -> Sprintf(wrap.msg, wrap.arg)
      [] wrap.fn = "Wraps" -> structuredErr_ErrorNoUnwrap([msg |-> wrap.msg, attrs |-> wrap.args])

WrapMsgs == {<<"a">>, <<"b">>}

WrapFns ==
    {WrapFn(m) : m \in WrapMsgs}
    \cup {WrapfFn(f, a) : f \in Formats, a \in FmtArgs}
    \cup {WrapsFn(<<"a">>, <<<<"k", "1">>>>)}

\* the values that are nil or like nil a caller can hand over
NilLikeValues ==
    {Foreign("Pointer", TRUE, 0, <<"f">>), Foreign("Slice", FALSE, 0, <<"f">>),
     Foreign("Array", FALSE, 0, <<"f">>)}

\* NewErrorWrap(err) given the error built last, or nil
NewErrorWrapOp ==
    \E err \in Top(heap, 1) \cup {0} :
        /\ Values(heap) < MaxWrap
        /\ heap' = NewErrorWrap(heap, err).heap
        /\ last' = [NoCall EXCEPT !.op = "NewErrorWrap", !.err = err,
                       !.res = Len(heap) + 1, !.pre = Error(heap, err),
                       !.preLen = Len(heap),
                       !.out = [holder |-> Len(heap) + 1,
                                base |-> Error(heap, err),
                                cause |-> Cause(heap, err), log |-> <<>>]]
        /\ UNCHANGED <<rev, handler, threads>>

\* the in-place wraps made in a row on one holder since it held base; a
\* holder left with nil starts over
WrapLog(r, inner, wrap) ==
    IF r.res <= 0 \/ r.heap[r.res].error = 0
    THEN [holder |-> r.res, base |-> Panic, cause |-> 0, log |-> <<>>]
    ELSE IF /\ last.op \in {"NewErrorWrap", "WrapInPlace"}
            /\ last.out.holder = r.res
            /\ last.out.base # Panic
    THEN [holder |-> r.res, base |-> last.out.base,
          cause |-> last.out.cause, log |-> Append(last.out.log, wrap)]
    ELSE [holder |-> r.res, base |-> Error(heap, inner),
          cause |-> Cause(heap, inner), log |-> <<wrap>>]

\* WrapInPlace(err, wrap)
WrapInPlaceOp ==
    \E err \in Errs(heap), wrap \in WrapFns :
        LET r == WrapInPlace(heap, err, wrap)
            inner == IF r.res > 0 THEN heap[r.res].error ELSE 0
        IN  /\ Values(r.heap) <= MaxWrap
            /\ \A i \in 1..Len(r.heap) : Len(r.heap[i].msg) <= MaxMsgLen
            /\ heap' = r.heap
            /\ last' = [NoCall EXCEPT !.op = "WrapInPlace", !.err = err,
                           !.msg = WrapText(wrap), !.res = r.res,
                           !.pre = Error(heap, err), !.preLen = Len(heap),
                           !.out = [ret |-> r.ret, calls |-> r.calls,
                                    wrap |-> wrap, before |-> heap]
                                   @@ WrapLog(r, inner, wrap)]
            /\ UNCHANGED <<rev, handler, threads>>

InitWrap ==
    /\ rev = "errstack"
    /\ heap \in {<<EOF>>} \cup {<<f>> : f \in NilLikeValues}
    /\ last = NoCall
    /\ handler = DefaultHandlers
    /\ threads = NoThreads

NextWrap ==
    \/ WrapTopOp({<<"a">>}, MaxWrap)
    \/ NewErrorWrapOp
    \/ WrapInPlaceOp

SpecWrap == InitWrap /\ [][NextWrap]_vars

\* ------------------------------------------------------------------ Errorf

MaxErrorf == 4

\* a format is a sequence of pieces of text and verbs %w
ErrorfFormats == {<<"a">>, <<"%w">>, <<"a", "%w">>, <<"%w", "%w">>}

\* how many verbs %w a format has
RECURSIVE Verbsw(_)
Verbsw(format) ==
    IF format = <<>> THEN 0
    ELSE (IF Head(format) = "%w" THEN 1 ELSE 0) + Verbsw(Tail(format))

\* the text fmt.Errorf builds: each %w gives Error() of its operand
RECURSIVE Sprintw(_, _, _)
Sprintw(h, format, a) ==
    IF format = <<>> THEN <<>>
    ELSE IF Head(format) = "%w"
    THEN Error(h, Head(a)) \o Sprintw(h, Tail(format), Tail(a))
    ELSE <<Head(format)>> \o Sprintw(h, Tail(format), a)

\* fmt.Errorf: an errorString without %w, a wrapError with one, a wrapErrors
\* with more
fmt_Errorf(h, format, a) ==
    CASE Len(a) = 0 -> Node("errorString", Sprintw(h, format, a), 0, 0)
      [] Len(a) = 1 -> Node("wrapError", Sprintw(h, format, a), a[1], 0)
      [] OTHER -> [Node("wrapErrors", Sprintw(h, format, a), 0, 0)
                      EXCEPT !.sub = a]

\* Errorf that never keeps what fmt.Errorf wrapped
ErrorfFundamental(h, format, a) ==
    Alloc(h, Node("fundamental", fmt_Errorf(h, format, a).msg, 0, NewStack))

Errorf(h, format, a) ==
    LET err == fmt_Errorf(h, format, a)
    IN  IF err.typ \in UnwrapTypes \/ err.typ \in UnwrapsTypes
        THEN Alloc(Alloc(h, err).heap,
                   Node("addStack", <<>>, Len(h) + 1, NewStack))
        ELSE Alloc(h, Node("fundamental", err.msg, 0, NewStack))

Errorf0(h, format, a) ==
    LET err == fmt_Errorf(h, format, a)
    IN  IF err.typ \in UnwrapTypes \/ err.typ \in UnwrapsTypes
        THEN Alloc(Alloc(h, err).heap,
                   Node("addStack0", <<>>, Len(h) + 1, NewStack))
        ELSE Alloc(h, Node("fundamental0", err.msg, 0, NewStack))

\* stderrors.Is: target is err or an error reached from err through
\* Unwrap() error and Unwrap() []error
RECURSIVE Is(_, _, _)
Is(h, err, target) ==
    IF err <= 0 THEN FALSE
    ELSE \/ err = target
         \/ Is(h, Unwrap(h, err), target)
         \/ \E i \in 1..Len(Unwraps(h, err)) : Is(h, Unwraps(h, err)[i], target)

\* the operand lists of the %w verbs of a format
Operands(h, format) == [1..Verbsw(format) -> Errs(h) \ {0}]

\* Errorf(format, a...)
ErrorfOp ==
    \E format \in ErrorfFormats :
        \E a \in Operands(heap, format) :
            LET r == IF rev = "errors" THEN Errorf0(heap, format, a)
                     ELSE Errorf(heap, format, a)
            IN  /\ Values(r.heap) <= MaxErrorf
                /\ \A i \in 1..Len(r.heap) : Len(r.heap[i].msg) <= MaxMsgLen
                /\ heap' = r.heap
                /\ last' = [NoCall EXCEPT !.op = "Errorf", !.res = r.res,
                               !.msg = Error(r.heap, r.res),
                               !.preLen = Len(heap), !.vis = a]
                /\ UNCHANGED <<rev, handler, threads>>

\* Is(err, target)
IsOp ==
    \E err \in Errs(heap), target \in Errs(heap) \ {0} :
        /\ last' = [NoCall EXCEPT !.op = "Is", !.err = err, !.res = target,
                       !.done = Is(heap, err, target)]
        /\ UNCHANGED <<heap, rev, handler, threads>>

InitErrorf ==
    /\ rev \in Revs
    /\ heap \in {<<>>, <<EOF>>}
    /\ last = NoCall
    /\ handler = DefaultHandlers
    /\ threads = NoThreads

NextErrorf ==
    \/ NewOp(MaxErrorf)
    \/ New0Op(MaxErrorf)
    \/ ErrorfOp
    \/ IsOp

SpecErrorf == InitErrorf /\ [][NextErrorf]_vars

\* ------------------------------------------------------------ shared errors

\* what a read of a string can give while another thread writes it
Torn == <<"!torn">>

\* the functions the wrapping threads call
RaceOps == {"Wrap", "Wrapf", "WrapNoStack"}

\* the type whose message op rewrites
Merges(op) ==
    IF op = "WrapNoStack" THEN "withMessageNoStack" ELSE "withMessage"

\* the errors the threads share: io.EOF, Wrap(io.EOF, "a") and
\* WrapNoStack(io.EOF, "a")
SharedHeaps ==
    {<<EOF>>, <<EOF, Node("withMessage", <<"a">>, 1, NewStack)>>,
     <<EOF, Node("withMessageNoStack", <<"a">>, 1, 0)>>}

\* a thread that has called op(e, msg), or Wrapf with a format that gives
\* msg, and has not yet looked at e
Wrapper(op, msg, e, text) ==
    [kind |-> "wrapper", pc |-> "call", op |-> op, msg |-> msg, err |-> e,
     orig |-> text, tmp |-> <<>>, res |-> 0, out |-> <<>>]

\* a thread that has called e.Error()
Reader(e, text) ==
    [kind |-> "reader", pc |-> "call", op |-> "Error", msg |-> <<>>,
     err |-> e, orig |-> text, tmp |-> <<>>, res |-> 0, out |-> <<>>]

\* another thread is writing the msg field thread t is about to access, and
\* nothing orders the two accesses
Races(t) ==
    \E u \in DOMAIN threads :
        /\ u # t
        /\ threads[u].kind = "wrapper"
        /\ threads[u].pc = "write"

\* what a read of the msg field of e gives thread t
ReadMsg(t, e) == {heap[e].msg} \cup (IF Races(t) THEN {Torn} ELSE {})

\* what the msg field of e holds once thread t has written text
WrittenMsg(t, text) == {text} \cup (IF Races(t) THEN {Torn} ELSE {})

\* the test isNil(err) and the type assertion of Wrap, Wrapf and
\* WrapNoStack, and the return of a new node when the assertion fails
WrapCallStep(t) ==
    LET th == threads[t]
        r == IF th.op = "WrapNoStack" THEN WrapNoStack(heap, th.err, th.msg)
             ELSE Wrap(heap, th.err, th.msg)
    IN  /\ th.kind = "wrapper"
        /\ th.pc = "call"
        /\ IF heap[th.err].typ = Merges(th.op)
           THEN /\ threads' = [threads EXCEPT ![t].pc = "read"]
                /\ UNCHANGED heap
           ELSE /\ heap' = r.heap
                /\ threads' = [threads EXCEPT ![t].pc = "done",
                                              ![t].res = r.res]
        /\ UNCHANGED <<last, rev, handler>>

\* the read of wm.msg in wm.msg = message + ": " + wm.msg
WrapReadStep(t) ==
    LET th == threads[t]
    IN  /\ th.kind = "wrapper"
        /\ th.pc = "read"
        /\ \E m \in ReadMsg(t, th.err) :
               threads' = [threads EXCEPT ![t].pc = "write", ![t].tmp = m]
        /\ UNCHANGED <<heap, last, rev, handler>>

\* the write of wm.msg, and return wm
WrapWriteStep(t) ==
    LET th == threads[t]
    IN  /\ th.kind = "wrapper"
        /\ th.pc = "write"
        /\ \E m \in WrittenMsg(t, th.msg \o Delim \o th.tmp) :
               heap' = [heap EXCEPT ![th.err].msg = m]
        /\ threads' = [threads EXCEPT ![t].pc = "done", ![t].res = th.err]
        /\ UNCHANGED <<last, rev, handler>>

\* e.Error()
ErrorStep(t) ==
    LET th == threads[t]
    IN  /\ th.kind = "reader"
        /\ th.pc = "call"
        /\ \E m \in ReadMsg(t, th.err) :
               threads' =
                   [threads EXCEPT
                      ![t].pc = "done",
                      ![t].out =
                          IF heap[th.err].typ
                                 \in {"withMessage", "withMessageNoStack"}
                          THEN withMessage_Error(
                                   m, Error(heap, heap[th.err].error))
                          ELSE Error(heap, th.err)]
        /\ UNCHANGED <<heap, last, rev, handler>>

\* two threads wrap the error built last while a third reads it
InitRace ==
    /\ rev = "errstack"
    /\ heap \in SharedHeaps
    /\ last = NoCall
    /\ handler = DefaultHandlers
    /\ \E op1 \in RaceOps, op2 \in RaceOps :
           threads =
               <<Wrapper(op1, IF op1 = "Wrapf" THEN Sprintf(<<"%d">>, 1)
                              ELSE <<"b">>,
                         Len(heap), Error(heap, Len(heap))),
                 Wrapper(op2, IF op2 = "Wrapf" THEN Sprintf(<<"%d">>, 2)
                              ELSE <<"c">>,
                         Len(heap), Error(heap, Len(heap))),
                 Reader(Len(heap), Error(heap, Len(heap)))>>

NextRace ==
    \/ \E t \in DOMAIN threads : WrapCallStep(t)
    \/ \E t \in DOMAIN threads : WrapReadStep(t)
    \/ \E t \in DOMAIN threads : WrapWriteStep(t)
    \/ \E t \in DOMAIN threads : ErrorStep(t)

SpecRace == InitRace /\ [][NextRace]_vars

\* ------------------------------------------------------------------ claims

\* the operations that put a message before an error
MessageOps == {"Wrap", "Wrapf", "WrapNoStack", "WithMessage"}

\* the operations that wrap an error
WrappingOps == MessageOps \cup {"AddStack", "AddStackSkip", "Wraps"}

\* nil-like as the specification defines it: a nil pointer or interface, or
\* a slice, array or map that is nil or empty
NilLike(h, e) ==
    /\ e > 0
    /\ \/ h[e].kind \in {"Pointer", "Interface"} /\ h[e].nilv
       \/ h[e].kind \in {"Slice", "Array", "Map"}
            /\ (h[e].nilv \/ h[e].len = 0)

\* the nodes of the chain of e along the fields that hold the wrapped error
RECURSIVE FieldChain(_, _)
FieldChain(h, e) ==
    IF e <= 0 THEN {} ELSE {e} \cup FieldChain(h, h[e].error)

\* how many nodes of the chain of e captured a stack
ChainStacks(h, e) == Cardinality({i \in FieldChain(h, e) : h[i].stack # 0})

\* the nodes reached from e by Unwrap alone
RECURSIVE UnwrapChain(_, _)
UnwrapChain(h, e) ==
    IF e <= 0 THEN {} ELSE {e} \cup UnwrapChain(h, Unwrap(h, e))

\* C1: for a non-nil (not nil-like) error e and a message m, the Error()
\* of Wrap(e, m), Wrapf(e, ...), WrapNoStack(e, m) and WithMessage(e, m) is
\* m, then ": ", then the Error() e had before the call, also when e was
\* itself returned by an earlier wrap.
C1_WrapError ==
    (last.op \in MessageOps /\ last.err > 0 /\ ~NilLike(heap, last.err))
        => /\ last.res > 0
           /\ Error(heap, last.res) = last.msg \o Delim \o last.pre

\* a wrap of an error that an earlier wrap returned
C1_Witness ==
    /\ last.op \in MessageOps
    /\ last.err > 0
    /\ heap[last.err].typ \in
           {"withMessage", "withMessageNoStack", "withStack0", "withMessage0"}
    /\ last.res > 0
    /\ last.pre # Panic

\* C2: for a non-nil error e, also one returned by Wrap or Wrapf, and a
\* message m, Unwrap(Wrap(e, m)) is an error whose Error() is the Error() e
\* had before the call.
C2_UnwrapWrap ==
    (last.op \in {"Wrap", "Wrapf"} /\ last.err > 0
        /\ ~NilLike(heap, last.err))
        => /\ Unwrap(heap, last.res) > 0
           /\ Error(heap, Unwrap(heap, last.res)) = last.pre

\* C2 holds when e is not already a *withMessage of errstack.go
C2_WitnessNested ==
    /\ last.op \in {"Wrap", "Wrapf"}
    /\ last.err > 0
    /\ heap[last.err].typ = "withStack0"
    /\ Error(heap, Unwrap(heap, last.res)) = last.pre

\* C3: a construction operation given the literal nil returns nil, without
\* failing and without building a node.
C3_NilInNilOut ==
    (last.op \in WrappingOps /\ last.err = 0)
        => /\ last.res = 0
           /\ heap = SubSeq(heap, 1, last.preLen)
           /\ Len(heap) = last.preLen

C3_Witness ==
    /\ last.op = "Wraps"
    /\ last.err = 0
    /\ last.res = 0

\* C4: every wrapping operation returns nil when its argument is nil-like (a
\* non-nil interface holding a nil pointer or a nil or empty slice or map),
\* so no wrapper is built around a nil-like value.
C4_NilLikeInNilOut ==
    (rev = "errstack" /\ last.op \in WrappingOps /\ NilLike(heap, last.err)
        /\ heap[last.err].kind \in {"Pointer", "Slice", "Map"})
        => /\ last.res = 0
           /\ Len(heap) = last.preLen

\* the operations of errstack.go do return nil for a nil-like value
C4_WitnessErrstack ==
    /\ rev = "errstack"
    /\ last.op \in WrappingOps \ {"Wraps"}
    /\ NilLike(heap, last.err)
    /\ last.res = 0

\* C5: IsNil never panics and is true exactly for the literal nil, a nil
\* pointer or interface, and a slice, array or map that is nil or empty.
C5_IsNil ==
    last.op = "IsNil"
        => /\ last.out # "panic"
           /\ (last.out = "true") <=> (last.err = 0 \/ NilLike(heap, last.err))

\* IsNil on the values the tests give it
C5_WitnessSlice ==
    /\ last.op = "IsNil"
    /\ last.err > 0
    /\ heap[last.err].kind = "Slice"
    /\ heap[last.err].len = 0
    /\ last.out = "true"

Elems(seq) == {seq[i] : i \in 1..Len(seq)}

\* where x is in a sequence that holds it once
Pos(seq, x) == CHOOSE i \in 1..Len(seq) : seq[i] = x

\* the members of a group as the revision of a walk defines a group:
\* walkUnwrapLevel knows Unwrap() []error alone, and the WalkDeep of
\* errwrap/base.go the ErrorGroup interface alone
Members(h, g, op) ==
    IF op = "walkUnwrapLevel" /\ h[g].typ # "errorGroup" THEN <<>>
    ELSE IF op = "WalkDeep0" /\ h[g].typ # "errWalkTest" THEN <<>>
    ELSE h[g].sub

\* the nodes of a walk in pre-order: a node, the subtree of its cause, then
\* the subtree of each member in the order the group lists them
RECURSIVE Preorder(_, _, _), PreorderList(_, _, _)
Preorder(h, e, op) ==
    IF e = 0 THEN <<>>
    ELSE <<e>> \o Preorder(h, Unwrap(h, e), op)
               \o PreorderList(h, Members(h, e, op), op)

PreorderList(h, es, op) ==
    IF es = <<>> THEN <<>>
    ELSE Preorder(h, Head(es), op) \o PreorderList(h, Tail(es), op)

\* C7: Cause follows Unwrap alone, never the members of a group, to the
\* last node of the chain, the first whose Unwrap gives nil; Cause(nil) is
\* nil and an error with no cause is its own Cause.
C7_Cause ==
    last.op = "Cause"
        => /\ last.err = 0 => last.res = 0
           /\ last.err > 0
                => /\ last.res \in UnwrapChain(heap, last.err)
                   /\ Unwrap(heap, last.res) = 0
           /\ Unwrap(heap, last.err) = 0 => last.res = last.err

\* Cause of an error that has a cause and a group of its own is found
\* along the cause
C7_Witness ==
    /\ last.op = "Cause"
    /\ last.err > 0
    /\ Unwrap(heap, last.err) > 0
    /\ \E i \in 1..Len(heap[last.err].sub) : heap[last.err].sub[i] > 0
    /\ last.res = Unwrap(heap, last.err)

\* C8: when the visitor never stops, WalkDeep visits the nodes of the tree
\* in pre-order, a node, then the subtree of its cause, then the subtree of
\* each member in the group's order, the groups below a cause edge
\* included.
C8_Preorder ==
    (last.op \in {"WalkDeep", "WalkDeep0"} /\ last.stop = {})
        => last.vis = Preorder(heap, last.err, last.op)

\* the recursive WalkDeep visits the members of a group that is the cause
\* of the root
C8_WitnessBelowCause ==
    /\ last.op = "WalkDeep"
    /\ last.stop = {}
    /\ last.err > 0
    /\ Unwrap(heap, last.err) > 0
    /\ \E m \in Elems(heap[Unwrap(heap, last.err)].sub) :
            m > 0 /\ m \in Elems(last.vis)
    /\ last.vis = Preorder(heap, last.err, last.op)

\* C9: WalkDeep gives the visitor the nodes of the pre-order up to the
\* first at which it returns true and none after it; it returns true exactly
\* when the visitor returned true for a node, and WalkDeep(nil, v) returns
\* false without calling v.
C9_StopsAtFirst ==
    last.op \in {"WalkDeep", "WalkDeepLevel"}
        => LET full == Preorder(heap, last.err, last.op) IN
           /\ last.err = 0 => (last.vis = <<>> /\ ~last.done)
           /\ Len(last.vis) <= Len(full)
           /\ last.vis = SubSeq(full, 1, Len(last.vis))
           /\ \A i \in 1..(Len(last.vis) - 1) : last.vis[i] \notin last.stop
           /\ last.done <=> (\E i \in 1..Len(last.vis) :
                                 last.vis[i] \in last.stop)
           /\ ~last.done => last.vis = full

\* a walk that the visitor stopped before the members and the rest of the
\* tree were reached
C9_Witness ==
    /\ last.op = "WalkDeep"
    /\ last.done
    /\ Len(last.vis) >= 2
    /\ Len(last.vis) < Len(Preorder(heap, last.err, last.op))

\* C10: a walk over a group whose member list holds nil never gives nil
\* to the visitor, and when it is not stopped it visits the other members of
\* every group it reaches, in the order the group lists them.
C10_NilMemberSkipped ==
    last.op \in {"WalkDeep", "WalkDeepLevel", "UnwrapGroups",
                 "walkUnwrapLevel"}
        => /\ 0 \notin Elems(last.vis)
           /\ ~last.done =>
                \A g \in Elems(last.vis) :
                    LET m == Members(heap, g, last.op) IN
                    /\ \A i \in 1..Len(m) :
                           m[i] # 0 => m[i] \in Elems(last.vis)
                    /\ \A i, j \in 1..Len(m) :
                           (i < j /\ m[i] # 0 /\ m[j] # 0)
                               => Pos(last.vis, m[i]) < Pos(last.vis, m[j])

\* a walk over a group that lists an error, nil, and another error
C10_Witness ==
    /\ last.op \in {"WalkDeep", "WalkDeepLevel", "UnwrapGroups",
                    "walkUnwrapLevel"}
    /\ ~last.done
    /\ last.err > 0
    /\ Len(heap[last.err].sub) = 3
    /\ heap[last.err].sub[1] > 0
    /\ heap[last.err].sub[2] = 0
    /\ heap[last.err].sub[3] > 0
    /\ Len(last.vis) = 3

\* the first node of a sequence that is in a set, 0 when there is none
FirstIn(seq, set) ==
    LET hits == {i \in 1..Len(seq) : seq[i] \in set}
    IN  IF hits = {} THEN 0
        ELSE seq[CHOOSE i \in hits : \A j \in hits : i <= j]

\* the nodes that have a method StackTrace(): those that embed a captured
\* stack, a structuredErr keeping its stack in a field with no such method
HasStackTrace(h) ==
    {i \in 1..Len(h) : h[i].stack # 0 /\ h[i].typ # "structuredErr"}

\* C11: Find(root, p) returns the first node of the WalkDeep order of which
\* p holds, whether it sits on a chain of causes or among the members of a
\* group, and nil when p holds of none; GetStackTracer(root) is that search
\* for the nodes that are a StackTracer.
C11_FirstMatch ==
    /\ last.op = "Find"
         => last.res = FirstIn(Preorder(heap, last.err, "WalkDeep"),
                               last.stop)
    /\ last.op = "GetStackTracer"
         => last.res = FirstIn(Preorder(heap, last.err, "WalkDeep"),
                               HasStackTrace(heap))

\* a search with two matches, the first of them a member of a group
C11_Witness ==
    /\ last.op = "Find"
    /\ last.err > 0
    /\ Cardinality(last.stop
           \cap Elems(Preorder(heap, last.err, "WalkDeep"))) = 2
    /\ last.res \in Elems(heap[last.err].sub)
    /\ last.res > 0

\* HasStack of the revision the program was built from
HasStackOf(h, e) == IF rev = "errors" THEN HasStack0(h, e) ELSE HasStack(h, e)

\* C12: when HasStack(e) holds, HasStack holds of what Wrap, Wrapf,
\* WithMessage, WrapNoStack, AddStack, AddStackSkip and Wraps return for e,
\* however many wraps e is already under.
C12_HasStackMonotonic ==
    (last.op \in WrappingOps /\ last.preHas)
        => /\ last.res > 0
           /\ HasStackOf(heap, last.res)

\* a wrap that captures no stack of its own, over an error that has one
C12_Witness ==
    /\ last.op \in {"WrapNoStack", "WithMessage"}
    /\ last.preHas
    /\ last.res > 0
    /\ last.res # last.err
    /\ heap[last.res].stack = 0
    /\ HasStackOf(heap, last.res)


\* the operations of errstack.go and structured.go said to record a stack
StackOps == {"New", "Wrap", "Wrapf", "AddStack", "AddStackSkip", "Wraps"}

\* C13: an error returned by New, Wrap, Wrapf, AddStack, AddStackSkip or
\* Wraps carries a recorded stack: HasStack reports true for it and
\* GetStackTracer finds a stack tracer in it
C13_CarriesStack ==
    (rev = "errstack" /\ last.op \in StackOps /\ last.res > 0) =>
        /\ HasStack(heap, last.res)
        /\ GetStackTracer(heap, last.res) # 0

\* Wraps over an error without a stack: the structured error holds the new
\* stack in a field, it has no StackTrace method, and the cause is kept as
\* it was given
C13_WitnessWraps ==
    /\ rev = "errstack" /\ last.op = "Wraps" /\ last.res > 0
    /\ ~last.preHas
    /\ heap[last.res].stack # 0
    /\ HasStack(heap, last.res)
    /\ GetStackTracer(heap, last.res) = 0


\* C14: for a node that defines ErrorNoUnwrap and has a cause, ErrorNoUnwrap
\* is a prefix of Error, and ErrorNoUnwrap joined to the cause's Error with
\* ": ", an empty side skipped, is Error exactly: for every message, the
\* empty one included, and for structured wrappers with attributes
C14_NoUnwrapJoin ==
    (last.op = "ErrorNoUnwrap" /\ Unwrap(heap, last.err) # 0) =>
        /\ HasPrefix(last.pre, last.msg)
        /\ joinZero(Delim, last.msg, Error(heap, Unwrap(heap, last.err)))
               = last.pre

\* a message wrapper with the empty message: Error puts ": " before the
\* text of the cause, ErrorNoUnwrap is empty
C14_WitnessEmptyMessage ==
    /\ last.op = "ErrorNoUnwrap"
    /\ heap[last.err].typ \in {"withMessage", "withMessageNoStack"}
    /\ last.msg = <<>>
    /\ last.pre = Delim \o Error(heap, Unwrap(heap, last.err))


\* the text structureAsText gives for the arguments of the model
Rendered(attrs) ==
    CASE attrs = <<>> -> <<>>
      [] attrs = <<<<"k", "1">>>> -> <<"k", "=", "1">>
      [] attrs = <<<<"k", "1">>, <<"i", "3">>>> ->
             <<"k", "=", "1", " ", "i", "=", "3">>

\* C15: the Error of Wraps(e, m, attrs...) is m and the rendered attributes
\* joined by a space, joined by ": " to the Error of e, an empty part being
\* left out of a join, so that with m = "" the text starts with the
\* attributes
C15_WrapsError ==
    (last.op = "Wraps" /\ last.res > 0) =>
        Error(heap, last.res) =
            joinZero(Delim,
                     joinZero(<<" ">>, last.msg,
                              Rendered(heap[last.res].attrs)),
                     last.pre)

\* Wraps with the empty message and two attributes, over a structured error
\* that has attributes of its own
C15_Witness ==
    /\ last.op = "Wraps" /\ last.res > 0
    /\ last.msg = <<>>
    /\ Len(heap[last.res].attrs) = 2
    /\ heap[last.err].typ = "structuredErr"
    /\ heap[last.err].attrs # <<>>
    /\ SubSeq(Error(heap, last.res), 1, 3) = <<"k", "=", "1">>


\* the nodes of a walk that provide structured data, in walk order: those
\* with a record of their own and the errors that are an slog.LogValuer
Providers(h, e) ==
    SelectSeq(Preorder(h, e, "walkUnwrapLevel"),
              LAMBDA x : h[x].typ \in HasSlogRecordTypes
                         \/ IsValuerError(h[x]))

RECURSIVE AttrsOf(_, _)
AttrsOf(h, seq) ==
    IF seq = <<>> THEN <<>> ELSE h[Head(seq)].attrs \o AttrsOf(h, Tail(seq))

RECURSIVE SumAttrs(_, _)
SumAttrs(h, seq) ==
    IF seq = <<>> THEN 0 ELSE Len(h[Head(seq)].attrs) + SumAttrs(h, Tail(seq))

\* the record SlogRecord(root) returns has as many attributes as the
\* nodes of the walk that provide structured data have together, and holds
\* them in walk order, the outermost node's first
C16_AttrSum ==
    (last.op = "SlogRecord" /\ Providers(heap, last.err) # <<>>) =>
        /\ ~last.out.nil
        /\ Len(last.out.attrs) = SumAttrs(heap, Providers(heap, last.err))
        /\ last.out.attrs = AttrsOf(heap, Providers(heap, last.err))

\* the merge changes the record of no node
C16_RecordsKept == [][last'.op = "SlogRecord" => heap' = heap]_vars

\* C16: the attributes of SlogRecord(root) are those of the nodes of the
\* walk that provide structured data, as many and in walk order, and the
\* merge changes the record of no node
C16_AttrSumKept == []C16_AttrSum /\ C16_RecordsKept

\* two structured nodes of two attributes each give a record of four
C16_Witness ==
    /\ last.op = "SlogRecord"
    /\ Len(Providers(heap, last.err)) = 2
    /\ \A i \in 1..2 : Len(heap[Providers(heap, last.err)[i]].attrs) = 2
    /\ Len(last.out.attrs) = 4


\* C17: SlogRecord(root) returns nil exactly when no node of the walk
\* provides structured data, neither a record nor an slog.LogValuer; so it
\* does for nil and for chains of New, Wrap and AddStack alone
C17_NilIffNoProvider ==
    last.op = "SlogRecord" =>
        (last.out.nil <=> Providers(heap, last.err) = <<>>)

\* a chain of wrappers over a plain error: the walk visits nodes, none
\* provides structured data, nil is returned
C17_Witness ==
    /\ last.op = "SlogRecord"
    /\ last.err > 0
    /\ heap[last.err].typ \in {"withMessage", "addStack"}
    /\ Len(Preorder(heap, last.err, "walkUnwrapLevel")) >= 2
    /\ Providers(heap, last.err) = <<>>
    /\ last.out.nil


\* a chain of k >= 1 successive Wraps over a leaf: a plain error, a New, or
\* the errors.New("") of Slog
WrapsChain(h, e) ==
    LET w == Preorder(h, e, "walkUnwrapLevel") IN
    /\ Len(w) >= 2
    /\ \A i \in 1..(Len(w) - 1) : h[w[i]].typ = "structuredErr"
    /\ h[w[Len(w)]].typ \in {"foreign", "fundamental"}

\* the messages m_k, ..., m_1 of such a chain, outermost first
ChainMsgs(h, e) ==
    LET w == Preorder(h, e, "walkUnwrapLevel")
    IN  [i \in 1..(Len(w) - 1) |-> h[w[i]].msg]

\* the text c of its leaf
LeafText(h, e) ==
    LET w == Preorder(h, e, "walkUnwrapLevel") IN Error(h, w[Len(w)])

NonEmpty(seq) == SelectSeq(seq, LAMBDA x : x # <<>>)

\* C18 as stated: the Message of SlogRecord over k successive Wraps is the
\* non-empty ones of m_k, ..., m_1, c joined by ": " in walk order, without
\* the text of any attribute
C18_MessageJoin ==
    (last.op = "SlogRecord" /\ last.err > 0 /\ WrapsChain(heap, last.err)) =>
        last.out.Message =
            Join(NonEmpty(Append(ChainMsgs(heap, last.err),
                                 LeafText(heap, last.err))), Delim)

\* C18 amended: the same, except that the text c of the leaf is left out
\* when it equals the fragment gathered just before it, the innermost
\* non-empty message
C18_MessageJoinSuppressed ==
    (last.op = "SlogRecord" /\ last.err > 0 /\ WrapsChain(heap, last.err)) =>
        LET ms == NonEmpty(ChainMsgs(heap, last.err))
            c == LeafText(heap, last.err)
        IN  last.out.Message =
                IF ms # <<>> /\ c = ms[Len(ms)] THEN Join(ms, Delim)
                ELSE Join(NonEmpty(Append(ms, c)), Delim)

\* two Wraps with messages and attributes over a leaf with a text of its
\* own: three fragments
C18_Witness ==
    /\ last.op = "SlogRecord" /\ last.err > 0
    /\ WrapsChain(heap, last.err)
    /\ Len(ChainMsgs(heap, last.err)) = 2
    /\ \A i \in 1..2 : /\ ChainMsgs(heap, last.err)[i] # <<>>
                       /\ heap[Preorder(heap, last.err,
                                        "walkUnwrapLevel")[i]].attrs # <<>>
    /\ last.out.Message =
           ChainMsgs(heap, last.err)[1] \o Delim
               \o ChainMsgs(heap, last.err)[2] \o Delim
               \o LeafText(heap, last.err)

\* a Wraps with the message the leaf has: the text is given once
C18_WitnessSuppressed ==
    /\ last.op = "SlogRecord" /\ last.err > 0
    /\ WrapsChain(heap, last.err)
    /\ ChainMsgs(heap, last.err) = <<LeafText(heap, last.err)>>
    /\ last.out.Message = LeafText(heap, last.err)


\* the verbose text of the direct cause of a node: what its own Format
\* writes, or its Error if it has none
CauseVerbose(h, e) == TextOf(formatterPlusV(h, h[e].error))

\* the message a node adds to its cause
OwnMessage(h, e) ==
    IF h[e].typ \in ErrorUnwrapTypes THEN ErrorNoUnwrap(h, e) ELSE h[e].msg

\* the verbose rendering as stated: the cause first, then a new line and the
\* message of the node if it is not empty, then the stack of the node if it
\* captured one; a node without a cause gives its message, then its stack
VerboseAsStated(h, e) ==
    (IF h[e].error # 0
     THEN CauseVerbose(h, e)
          \o (IF OwnMessage(h, e) # <<>>
              THEN <<"\n">> \o OwnMessage(h, e) ELSE <<>>)
     ELSE h[e].msg)
    \o (IF h[e].stack # 0 THEN StackText(h[e].stack) ELSE <<>>)

\* C19: the %+v rendering of a node with a cause is the verbose rendering
\* of its direct cause, then a new line and the node's own message if it is
\* not empty, then the node's own stack if it captured one; a fundamental
\* error renders its message, then its stack
C19_Verbose ==
    (last.op = "Format" /\ last.out.verb = "+v" /\ last.out.sink = "ok") =>
        last.out.text = VerboseAsStated(heap, last.err)

\* Wrap(io.EOF, "a"): EOF, a new line and the message, the stack of Wrap;
\* WrapNoStack(New("a"), "a"): the message and stack of New, then the
\* message of the wrapper
C19_WitnessWrap ==
    /\ last.op = "Format" /\ last.out.verb = "+v" /\ last.out.sink = "ok"
    /\ heap[last.err].typ = "withMessageNoStack"
    /\ heap[heap[last.err].error].typ = "fundamental"
    /\ last.out.text = heap[heap[last.err].error].msg
                       \o StackText(heap[heap[last.err].error].stack)
                       \o <<"\n">> \o heap[last.err].msg
    /\ last.out.text = VerboseAsStated(heap, last.err)

\* Wraps(io.EOF, "a"): the stack the structured error captured is written
\* before its message
C19_WitnessWraps ==
    /\ last.op = "Format" /\ last.out.verb = "+v" /\ last.out.sink = "ok"
    /\ heap[last.err].typ = "structuredErr"
    /\ heap[heap[last.err].error].typ = "foreign"
    /\ heap[last.err].msg # <<>>
    /\ last.out.text = Error(heap, heap[last.err].error)
                       \o StackText(heap[last.err].stack)
                       \o <<"\n">> \o OwnMessage(heap, last.err)

\* C19 for the nodes errstack.go formats
C19_VerboseErrstack ==
    (last.op = "Format" /\ last.out.verb = "+v" /\ last.out.sink = "ok"
     /\ heap[last.err].typ # "structuredErr") =>
        last.out.text = VerboseAsStated(heap, last.err)

\* C20: a write that fails while an error is formatted, whatever the verb,
\* does not make Format fail, and every failure is given to the handler
\* that is installed when Format is called
C20_FailuresHandled ==
    (last.op = "Format" /\ last.out.sink = "failing") =>
        /\ last.out.dropped = 0
        /\ Len(last.out.handled) = last.out.writes
        /\ \A i \in 1..Len(last.out.handled) :
               last.out.handled[i] = handler.errors

\* %s after a handler was installed: the one write fails and the handler
\* installed is given the error
C20_WitnessHandled ==
    /\ last.op = "Format" /\ last.out.sink = "failing"
    /\ last.out.verb = "s"
    /\ handler.errors \in Handlers
    /\ last.out.handled = <<handler.errors>>
    /\ last.out.dropped = 0

\* C20 for the writes made by writeString: %s and %v
C20_WriteStringHandled ==
    (last.op = "Format" /\ last.out.sink = "failing"
     /\ last.out.verb \in {"s", "v"}) =>
        /\ last.out.dropped = 0
        /\ Len(last.out.handled) = last.out.writes
        /\ \A i \in 1..Len(last.out.handled) :
               last.out.handled[i] = handler.errors

\* the first error of the chain of e that is an ErrorWrapper, 0 if none
HolderIn(h, e) ==
    LET hs == {i \in FieldChain(h, e) : h[i].typ = "ErrorWrap"}
    IN  IF hs = {} THEN 0
        ELSE CHOOSE i \in hs : \A j \in hs : i \in FieldChain(h, j) => i = j

\* holder holds what wrap returns for what it held before, and nothing else
\* differs from the heap that call of wrap leaves
InnerWrapped(b, h, holder, wrap) ==
    LET w == CallWrap(b, wrap, b[holder].error)
    IN  /\ w.res # PanicRes
        /\ h[holder].error = w.res
        /\ Len(h) = Len(w.heap)
        /\ \A i \in 1..Len(h) : i # holder => h[i] = w.heap[i]
        /\ h[holder] = [b[holder] EXCEPT !.error = w.res]

WrapInPlaceAsStated ==
    last.op = "WrapInPlace" =>
        LET b == last.out.before
            err == last.err
            holder == HolderIn(b, err)
        IN  IF err = 0 \/ NilLike(b, err) \/ holder = 0
            THEN /\ last.out.ret = "false"
                 /\ last.out.calls = 0
                 /\ heap = b
            ELSE /\ last.out.ret = "true"
                 /\ last.out.calls = 1
                 /\ Len(heap) >= Len(b)
                 /\ heap[err].typ = b[err].typ
                 /\ heap[holder].typ = b[holder].typ
                 /\ InnerWrapped(b, heap, holder, last.out.wrap)

\* C21: WrapInPlace(err, wrap) returns false, calls wrap zero times and
\* changes nothing when err is nil or like nil or no error of its chain is an
\* ErrorWrapper; otherwise it returns true and the holder then holds
\* wrap(what it held), wrap called once, while err keeps its identity and its
\* outer type.
C21_WrapInPlace == WrapInPlaceAsStated

\* the same, leaving aside the calls given a value of kind Array
C21_WrapInPlaceNoArray ==
    last.op = "WrapInPlace" =>
        \/ \E i \in FieldChain(last.out.before, last.err) :
               last.out.before[i].kind = "Array"
        \/ WrapInPlaceAsStated

\* an in-place wrap of a holder found below the error given
C21_WitnessWrapped ==
    /\ last.op = "WrapInPlace"
    /\ last.out.ret = "true"
    /\ last.res # last.err
    /\ heap[last.res].error > 0
    /\ Error(heap, last.err) # last.pre

\* a value like nil given: false is returned
C21_WitnessNilLike ==
    /\ last.op = "WrapInPlace"
    /\ last.err > 0
    /\ NilLike(heap, last.err)
    /\ last.out.ret = "false"

\* m_k + ": " + ... + m_1 + ": " + base for the wraps of log, the first one
\* made first
RECURSIVE Prefixed(_, _)
Prefixed(log, base) ==
    IF log = <<>> THEN base
    ELSE WrapText(log[Len(log)]) \o Delim
             \o Prefixed(SubSeq(log, 1, Len(log) - 1), base)

\* C22: after k in-place wraps WrapError(WrapFn(m_1)), ...,
\* WrapError(WrapfFn(m_k)) in a row on a holder that held e, Error() of the
\* holder is m_k + ": " + ... + m_1 + ": " + e.Error() and Cause(holder) is
\* still Cause(e).
C22_InPlaceChain ==
    (/\ last.op = "WrapInPlace"
     /\ last.out.ret = "true"
     /\ last.out.log # <<>>
     /\ last.out.base # Panic
     /\ \A i \in 1..Len(last.out.log) :
            last.out.log[i].fn \in {"Wrap", "Wrapf"})
    => /\ Error(heap, last.out.holder)
              = Prefixed(last.out.log, last.out.base)
       /\ Cause(heap, last.out.holder) = last.out.cause
       /\ last.out.cause > 0

\* the holder of io.EOF wrapped in place with WrapFn and then with WrapfFn
C22_Witness ==
    /\ last.op = "WrapInPlace"
    /\ last.out.ret = "true"
    /\ Len(last.out.log) = 2
    /\ last.out.log[1].fn = "Wrap"
    /\ last.out.log[2].fn = "Wrapf"
    /\ last.out.base = EOF.msg
    /\ Error(heap, last.out.holder)
           = Sprintf(last.out.log[2].msg, last.out.log[2].arg) \o Delim
               \o last.out.log[1].msg \o Delim \o EOF.msg

\* the nodes reached from e through the held error and the group members
RECURSIVE Reached(_, _)
Reached(h, e) ==
    IF e <= 0 THEN {}
    ELSE {e} \cup Reached(h, h[e].error)
             \cup UNION {Reached(h, h[e].sub[i]) : i \in 1..Len(h[e].sub)}

\* the captured stacks of the chain of e
Stacks(h, e) == {i \in Reached(h, e) : h[i].stack # 0}

\* what Errorf returned, but for the number of stacks
ErrorfShape ==
    IF last.vis # <<>>
    THEN /\ heap[last.res].typ \in {"addStack", "addStack0"}
         /\ heap[last.res].stack # 0
         /\ \A i \in 1..Len(last.vis) : Is(heap, last.res, last.vis[i])
    ELSE /\ heap[last.res].typ \in {"fundamental", "fundamental0"}
         /\ heap[last.res].stack # 0
         /\ Unwrap(heap, last.res) = 0
         /\ Cause(heap, last.res) = last.res
         /\ Stacks(heap, last.res) = {last.res}

\* C23 as stated: an Errorf whose formatted error wraps e returns a
\* stack-carrying wrapper through which Is reaches e, and the chain of the
\* result has exactly one captured stack; an Errorf that wraps nothing
\* returns a fundamental with no cause and one stack.
C23_ErrorfOneStack ==
    last.op = "Errorf" =>
        /\ ErrorfShape
        /\ Cardinality(Stacks(heap, last.res)) = 1

\* C23: the same, the stack counted being the one Errorf attaches: the chain
\* of the result has the stacks of the wrapped errors and one more, that of
\* the result itself.
C23_ErrorfAttachesOne ==
    last.op = "Errorf" =>
        /\ ErrorfShape
        /\ Stacks(heap, last.res)
             = {last.res}
                 \cup UNION {Stacks(heap, last.vis[i]) : i \in 1..Len(last.vis)}
        /\ \A i \in 1..Len(last.vis) : last.res \notin Stacks(heap, last.vis[i])

\* Errorf("a %w", New("a")): two stacks in the chain of the result
C23_Witness ==
    /\ last.op = "Errorf"
    /\ Len(last.vis) = 1
    /\ heap[last.vis[1]].typ \in {"fundamental", "fundamental0"}
    /\ Is(heap, last.res, last.vis[1])
    /\ Cardinality(Stacks(heap, last.res)) = 2

\* Errorf("%w%w", e1, e2): both are reached, and the chain has their stacks
\* and the one Errorf attached
C23_WitnessMultiple ==
    /\ last.op = "Errorf"
    /\ Len(last.vis) = 2
    /\ last.vis[2] # last.vis[1]
    /\ Is(heap, last.res, last.vis[1])
    /\ Is(heap, last.res, last.vis[2])
    /\ Cardinality(Stacks(heap, last.res)) = 3

\* C24: error nodes are immutable once constructed: no construction
\* operation (New, Errorf, Wrap, Wrapf, WithMessage/WrapNoStack, AddStack,
\* AddStackSkip, Wraps) changes the Error() string, the message or the cause
\* of an error value that existed before the call.
C24_Immutable ==
    [][\A i \in 1..Len(heap) :
           /\ i <= Len(heap')
           /\ heap'[i].msg = heap[i].msg
           /\ heap'[i].error = heap[i].error
           /\ Error(heap', i) = Error(heap, i)]_vars

\* a wrap of a wrapped error that built a new node and left the text of the
\* error given as it was
C24_WitnessKept ==
    /\ last.op \in {"Wrap", "Wrapf", "WrapNoStack", "WithMessage"}
    /\ last.err > 0
    /\ heap[last.err].typ \in {"withStack0", "withMessage0", "withMessage"}
    /\ last.res > last.preLen
    /\ Error(heap, last.err) = last.pre

\* a wrap that changed the text of the error it was given
C24_Mutated ==
    /\ last.op \in {"Wrap", "Wrapf", "WrapNoStack"}
    /\ last.err > 0
    /\ last.res = last.err
    /\ Error(heap, last.err) # last.pre

\* C25: WrapNoStack used consecutively appends the message strings rather
\* than creating a new error: WrapNoStack(WrapNoStack(e, m1), m2) returns the
\* node the inner call returned, its Error() is m2 + ": " + m1 + ": " +
\* e.Error(), its Unwrap() is e itself and no stack is captured.
C25_WrapNoStackMerges ==
    [][(/\ last'.op = "WrapNoStack"
        /\ last'.err > 0
        /\ heap[last'.err].typ = "withMessageNoStack")
       => /\ last'.res = last'.err
          /\ Len(heap') = Len(heap)
          /\ Error(heap', last'.res)
                 = last'.msg \o Delim \o heap[last'.err].msg \o Delim
                     \o Error(heap, heap[last'.err].error)
          /\ Unwrap(heap', last'.res) = heap[last'.err].error
          /\ heap'[Unwrap(heap', last'.res)] = heap[heap[last'.err].error]
          /\ heap'[last'.res].stack = 0
          /\ ChainStacks(heap', last'.res)
                 = ChainStacks(heap, heap[last'.err].error)]_vars

\* WrapNoStack(WrapNoStack(io.EOF, m1), m2)
C25_Witness ==
    /\ last.op = "WrapNoStack"
    /\ last.res = last.err
    /\ last.res > 0
    /\ heap[last.res].typ = "withMessageNoStack"
    /\ heap[heap[last.res].error] = EOF
    /\ Len(heap[last.res].msg) = 3
    /\ Error(heap, last.res) = heap[last.res].msg \o Delim \o EOF.msg
    /\ ChainStacks(heap, last.res) = 0

\* C26: two threads wrap the same shared error e (Wrap, Wrapf or WrapNoStack,
\* each with its own m_i) while a third reads e.Error(); in every
\* interleaving each result has Error() equal to m_i + ": " + the Error() e
\* had at the start, no message is lost or merged into the other, and the
\* reader sees the text e had at the start.
C26_Isolated ==
    \A t \in DOMAIN threads :
        threads[t].pc = "done" =>
            IF threads[t].kind = "wrapper"
            THEN /\ threads[t].res > 0
                 /\ Error(heap, threads[t].res)
                        = threads[t].msg \o Delim \o threads[t].orig
                 /\ Error(heap, threads[t].err) = threads[t].orig
            ELSE threads[t].out = threads[t].orig

\* all three threads are done on a shared io.EOF: two new nodes, each with
\* its own message
C26_WitnessLeaf ==
    /\ threads # NoThreads
    /\ \A t \in DOMAIN threads : threads[t].pc = "done"
    /\ heap[threads[1].err] = EOF
    /\ threads[1].res # threads[2].res
    /\ Error(heap, threads[1].res) = threads[1].msg \o Delim \o EOF.msg
    /\ Error(heap, threads[2].res) = threads[2].msg \o Delim \o EOF.msg
    /\ threads[3].out = EOF.msg

\* both wraps returned the shared node and one message is lost
C26_LostMessage ==
    /\ threads # NoThreads
    /\ \A t \in DOMAIN threads : threads[t].pc = "done"
    /\ threads[1].res = threads[2].res
    /\ heap[threads[1].res].msg = threads[2].msg \o Delim \o <<"a">>

\* C27: wrapping a structured chain in a pass-through container (Unwrap
\* only, Error() that of the inner error) does not change the merged record:
\* SlogRecord(container{e}) has the Message and the number of attributes of
\* SlogRecord(e); the Error() of the container is found to be a duplicate
\* prefix and is not put in the message.
C27_ContainerSameRecord ==
    last.op = "SlogRecordContainer" =>
        LET r == SlogRecord(heap, last.err)
        IN  /\ last.out.nil = r.nil
            /\ last.out.Message = r.Message
            /\ Len(last.out.attrs) = Len(r.attrs)
            /\ ~r.nil => last.out.Message # Error(heap, last.err)
                                                \o Delim \o r.Message

\* SlogRecord(container{Wraps(Wraps(e, m1, k, 1), m2, k, 1, i, 3)}): the
\* message is m2: m1: e and the record has three attributes
C27_Witness ==
    /\ last.op = "SlogRecordContainer"
    /\ heap[last.err].typ = "structuredErr"
    /\ heap[last.err].msg # <<>>
    /\ Len(heap[last.err].attrs) = 2
    /\ heap[last.err].error > 0
    /\ heap[heap[last.err].error].typ = "structuredErr"
    /\ heap[heap[last.err].error].msg # <<>>
    /\ Len(heap[heap[last.err].error].attrs) = 1
    /\ Len(last.out.attrs) = 3
    /\ last.out.Message
           = heap[last.err].msg \o Delim \o heap[heap[last.err].error].msg
               \o Delim \o Error(heap, heap[heap[last.err].error].error)
    /\ last.out.Message # Error(heap, last.err)

\* the nodes of seq up to the first that is in set, that one included
UpToFirst(seq, set) ==
    LET hits == {i \in 1..Len(seq) : seq[i] \in set}
    IN  IF hits = {} THEN seq
        ELSE SubSeq(seq, 1, CHOOSE i \in hits : \A j \in hits : i <= j)

\* the node that holds e as its cause or as a member
Parent(h, e) ==
    CHOOSE j \in 1..Len(h) : h[j].error = e \/ e \in Elems(h[j].sub)

\* 0 for the root, one more than the parent below it
RECURSIVE Depth(_, _, _)
Depth(h, root, e) == IF e = root THEN 0 ELSE 1 + Depth(h, root, Parent(h, e))

\* C28: UnwrapGroups(err) yields exactly the nodes WalkDeep gives a visitor
\* that never stops, in the same order; a consumer that leaves after the
\* i-th element is given nothing more; UnwrapGroupsLevel yields the same
\* nodes, each with its depth, 0 for the root and one more than the parent
\* across a cause edge and across a group-member edge.
C28_IteratorsAsWalk ==
    last.op \in {"UnwrapGroups", "UnwrapGroupsLevel"} =>
        LET full == WalkDeep(heap, last.err, {}).vis
        IN  /\ last.vis = UpToFirst(full, last.stop)
            /\ Elems(full) \cap last.stop = {} => last.vis = full
            /\ last.done <=> Elems(last.vis) \cap last.stop # {}
            /\ last.op = "UnwrapGroupsLevel"
                   => /\ Len(last.lev) = Len(last.vis)
                      /\ \A i \in 1..Len(last.vis) :
                             last.lev[i] = Depth(heap, last.err, last.vis[i])

\* a loop over UnwrapGroupsLevel that yields the root, its cause and a
\* member of that cause, at the depths 0, 1 and 2
C28_Witness ==
    /\ last.op = "UnwrapGroupsLevel"
    /\ Len(last.vis) = 3
    /\ last.lev = <<0, 1, 2>>
    /\ last.vis[2] = Unwrap(heap, last.vis[1])
    /\ last.vis[3] \in Elems(heap[last.vis[2]].sub)

\* a loop over UnwrapGroupsLevel left at its second element, before a node
\* of the walk
C28_WitnessLeft ==
    /\ last.op = "UnwrapGroupsLevel"
    /\ last.done
    /\ Len(last.vis) = 2
    /\ Len(WalkDeep(heap, last.err, {}).vis) = 3

\* a loop over UnwrapGroups that is not left: the whole walk is yielded
C28_WitnessWhole ==
    /\ last.op = "UnwrapGroups"
    /\ ~last.done
    /\ Len(last.vis) >= 3
    /\ last.vis = WalkDeep(heap, last.err, {}).vis

\* C29: HasStack(e) is true exactly when GetStackTracer(e) finds a stack
\* tracer, for every error the constructors have built.
C29_HasStackIffTracer ==
    \A e \in Errs(heap) \ {0} :
        HasStackOf(heap, e) <=> GetStackTracer(heap, e) # 0

\* a wrap that captured no stack, over an error with a stack tracer: both
\* answers are yes, and both are no for io.EOF
C29_Witness ==
    /\ last.op \in {"WrapNoStack", "WithMessage"}
    /\ last.res > last.preLen
    /\ HasStackOf(heap, last.res)
    /\ GetStackTracer(heap, last.res) # 0
    /\ GetStackTracer(heap, last.res) # last.res
    /\ ~HasStackOf(heap, 1)
    /\ GetStackTracer(heap, 1) = 0

\* an error of which HasStack holds and in which no stack tracer is found
C29_MarkerWithoutTracer ==
    \E e \in Errs(heap) \ {0} :
        HasStackOf(heap, e) /\ GetStackTracer(heap, e) = 0

\* an error in which a stack tracer is found and of which HasStack does not
\* hold
C29_TracerWithoutMarker ==
    \E e \in Errs(heap) \ {0} :
        ~HasStackOf(heap, e) /\ GetStackTracer(heap, e) # 0

\* the errors a node holds: its cause and the members of its group
Edges(h, i) == ({h[i].error} \cup Elems(h[i].sub)) \ {0}

\* the nodes reached from the nodes of set in at most n steps
RECURSIVE ReachN(_, _, _)
ReachN(h, set, n) ==
    IF n = 0 THEN set
    ELSE ReachN(h, set \cup UNION {Edges(h, j) : j \in set}, n - 1)

\* no node reaches itself along cause and group edges
Acyclic(h) == \A i \in 1..Len(h) : i \notin ReachN(h, Edges(h, i), Len(h))

\* C30: after any finite sequence of construction operations and in-place
\* wraps with WrapFn, WrapfFn and WrapsFn the graph of cause and group edges
\* reached from every error is finite and acyclic, also when a wrap returns
\* the node it was given, so that Cause, WalkDeep, SlogRecord and Error()
\* terminate: the walk from an error visits no more nodes than the heap has
\* and Cause ends at a node without cause.
C30_Acyclic ==
    /\ Acyclic(heap)
    /\ \A e \in Errs(heap) \ {0} :
           /\ Len(WalkDeep(heap, e, {}).vis) <= Len(heap)
           /\ Unwrap(heap, Cause(heap, e)) = 0

\* an in-place wrap whose wrap returned the node the holder held, the
\* message merged into it
C30_Witness ==
    /\ last.op = "WrapInPlace"
    /\ last.out.ret = "true"
    /\ last.res > 0
    /\ heap[last.res].error > 0
    /\ heap[last.res].error = last.out.before[last.res].error
    /\ heap[heap[last.res].error].msg
           # last.out.before[heap[last.res].error].msg
    /\ Acyclic(heap)

====
